---------------------------- MODULE Spec2Model ----------------------------
(***************************************************************************)
(* Bill synchronization engine of the rental-billing application:          *)
(*   - the store's RPC functions save_bill_complete / get_bill_with_details *)
(*     (SQL) and the service methods that call them (supabaseService.ts),   *)
(*   - the retry wrapper RetryableQuery.execute and queryWithTimeout,       *)
(*   - the client cache BillCache and the save / display flow around it.    *)
(* The specifications share the variables below:                            *)
(*   SpecStore  - service calls against the store, one call at a time,      *)
(*                over a transport that always answers;                     *)
(*   SpecRetry  - one run of the retry wrapper around an operation whose    *)
(*                attempts succeed, throw, or never resolve;                *)
(*   SpecFacade - the cache and the display / save flow over the store;     *)
(*   SpecPreload - the preloader over a store whose reads may fail;         *)
(*   SpecFetch  - fetches over a store whose reads may fail;                *)
(*   SpecOwners - the saves of two users for each other's renters;          *)
(*   SpecRetryFair - SpecRetry under the scheduling of the event loop;      *)
(*   SpecAbandon - saves whose attempts time out and stay on their way;     *)
(*   SpecSession - displays and saves with the preloads displays trigger.   *)
(***************************************************************************)
EXTENDS Integers, Sequences, FiniteSets, TLC

VARIABLES
  db,       \* the store: monthly_bills, additional_expenses, bill_payments rows
  last,     \* the last completed service call: its arguments and its outcome
  nsaves,   \* number of saves issued so far
  rq,       \* the retry wrapper's run: attempt, position, waits, outcome
  cache,    \* BillCache.cache: key -> sequence holding zero or one CacheEntry
  now,      \* Date.now(), in minutes
  fc,       \* the facade call in progress (display or save) and its outcome
  pl,       \* the preloader: calls so far, loads in flight, the load completed last
  net       \* requests of timed-out attempts, still on their way to the store

vars == <<db, last, nsaves, rq, cache, now, fc, pl, net>>

----------------------------------------------------------------------------
(* Bounds of the model *)

\* Longest incoming expense list of a save.
MaxExpenses == 2
\* Longest incoming payment list of a save.
MaxPayments == 1
\* Number of saves in one behaviour of SpecStore.
MaxSaves == 2

----------------------------------------------------------------------------
(* The store's tables *)

\* `id?: string` absent, JSON null: the child has no assigned identity.
NoId == 0

\* SQL NULL in a text column.
NULL == "NULL"

\* supabase.auth.getUser() returned no user.
NoUser == "nobody"

Users == {"u1", "u2"}

\* renters(id, user_id): renter 1 belongs to u1, renter 2 to u2; no renter 3.
renters == (1 :> "u1") @@ (2 :> "u2")

\* (month, year) periods the calls range over: a year boundary.
Periods == {<<12, 2024>>, <<1, 2025>>}

\* The bill's fields: rent_amount and the two final meter readings.
BillFields ==
  { [rent_amount |-> 6000, electricity_final_reading |-> 0, motor_final_reading |-> 0],
    [rent_amount |-> 6000, electricity_final_reading |-> 600, motor_final_reading |-> 250] }

\* additional_expenses.description is TEXT NOT NULL.
Descriptions == {"a", "b", NULL}

\* bill_payments.payment_type is CHECK (payment_type IN ('cash', 'online')).
PaymentTypes == {"cash", "bogus"}

EmptyDb ==
  [ monthly_bills |-> {}, additional_expenses |-> {}, bill_payments |-> {},
    next_bill |-> 1, next_expense |-> 1, next_payment |-> 1 ]

\* Rows of a child table attached to one bill.
ChildrenOf(rows, bill_id) == {r \in rows : r.monthly_bill_id = bill_id}

\* The bill rows with a given (renter_id, month, year), whoever owns them.
BillsAt(d, renter_id, month, year) ==
  {b \in d.monthly_bills : b.renter_id = renter_id /\ b.month = month /\ b.year = year}

----------------------------------------------------------------------------
(* save_bill_complete: the SQL function, statement by statement.  A        *)
(* statement that raises sets `raised`; the statements after it are        *)
(* skipped and the function's transaction is rolled back.                  *)

UpsertBill_alwaysInsert(d, p_bill_data, p_user_id) ==
  IF p_bill_data.renter_id \notin DOMAIN renters
  THEN [db |-> d, raised |-> TRUE, v_bill_id |-> 0]
  ELSE [db |-> [d EXCEPT !.monthly_bills = @ \cup
                   {[id |-> d.next_bill, user_id |-> p_user_id,
                     renter_id |-> p_bill_data.renter_id,
                     month |-> p_bill_data.month, year |-> p_bill_data.year,
                     rent_amount |-> p_bill_data.rent_amount,
                     electricity_final_reading |-> p_bill_data.electricity_final_reading,
                     motor_final_reading |-> p_bill_data.motor_final_reading]},
                 !.next_bill = @ + 1],
        raised |-> FALSE, v_bill_id |-> d.next_bill]

\* INSERT INTO monthly_bills ... ON CONFLICT (renter_id, month, year) DO UPDATE
\* ... RETURNING id INTO v_bill_id.  The foreign key renter_id REFERENCES
\* renters(id) rejects a renter that does not exist.
UpsertBill(d, p_bill_data, p_user_id) ==
  LET conflict == BillsAt(d, p_bill_data.renter_id, p_bill_data.month, p_bill_data.year)
  IN IF p_bill_data.renter_id \notin DOMAIN renters
     THEN [db |-> d, raised |-> TRUE, v_bill_id |-> 0]
     ELSE IF conflict # {}
     THEN LET old == CHOOSE b \in conflict : TRUE
              new == [old EXCEPT
                        !.rent_amount = p_bill_data.rent_amount,
                        !.electricity_final_reading = p_bill_data.electricity_final_reading,
                        !.motor_final_reading = p_bill_data.motor_final_reading]
          IN [db |-> [d EXCEPT !.monthly_bills = (@ \ {old}) \cup {new}],
              raised |-> FALSE, v_bill_id |-> old.id]
     ELSE LET new == [id |-> d.next_bill,
                      user_id |-> p_user_id,
                      renter_id |-> p_bill_data.renter_id,
                      month |-> p_bill_data.month,
                      year |-> p_bill_data.year,
                      rent_amount |-> p_bill_data.rent_amount,
                      electricity_final_reading |-> p_bill_data.electricity_final_reading,
                      motor_final_reading |-> p_bill_data.motor_final_reading]
          IN [db |-> [d EXCEPT !.monthly_bills = @ \cup {new},
                               !.next_bill = @ + 1],
              raised |-> FALSE, v_bill_id |-> new.id]

\* SELECT (value->>'id')::UUID FROM json_array_elements(p_children)
\* WHERE value->>'id' IS NOT NULL AND value->>'id' != 'null'
AssignedIds(p_children) ==
  {p_children[i].id : i \in {j \in 1..Len(p_children) : p_children[j].id # NoId}}

DeleteExpensesNotIn_anyBill(d, v_bill_id, p_expenses) ==
  [d EXCEPT !.additional_expenses = {r \in @ : r.id \in AssignedIds(p_expenses)}]

\* DELETE FROM additional_expenses WHERE monthly_bill_id = v_bill_id AND id NOT IN (...)
DeleteExpensesNotIn(d, v_bill_id, p_expenses) ==
  [d EXCEPT !.additional_expenses =
     {r \in @ : ~(r.monthly_bill_id = v_bill_id /\ r.id \notin AssignedIds(p_expenses))}]

\* DELETE FROM bill_payments WHERE monthly_bill_id = v_bill_id AND id NOT IN (...)
DeletePaymentsNotIn(d, v_bill_id, p_payments) ==
  [d EXCEPT !.bill_payments =
     {r \in @ : ~(r.monthly_bill_id = v_bill_id /\ r.id \notin AssignedIds(p_payments))}]

ProcessExpense_reinsert(st, v_bill_id, v_expense) ==
  IF st.raised THEN st
  ELSE IF v_expense.description = NULL
  THEN [st EXCEPT !.raised = TRUE]
  ELSE [st EXCEPT
          !.db.additional_expenses =
             {r \in @ : ~(r.id = v_expense.id /\ r.monthly_bill_id = v_bill_id)}
             \cup {[id |-> st.db.next_expense, monthly_bill_id |-> v_bill_id,
                    description |-> v_expense.description]},
          !.db.next_expense = @ + 1,
          !.ids = Append(@, st.db.next_expense)]

ProcessExpense_prepend(st, v_bill_id, v_expense) ==
  IF st.raised THEN st
  ELSE IF v_expense.id = NoId
  THEN IF v_expense.description = NULL
       THEN [st EXCEPT !.raised = TRUE]
       ELSE [st EXCEPT
               !.db.additional_expenses =
                  @ \cup {[id |-> st.db.next_expense, monthly_bill_id |-> v_bill_id,
                           description |-> v_expense.description]},
               !.db.next_expense = @ + 1,
               !.ids = <<st.db.next_expense>> \o @]
  ELSE [st EXCEPT !.ids = <<v_expense.id>> \o @]

ProcessExpense_noId(st, v_bill_id, v_expense) ==
  IF st.raised THEN st
  ELSE IF v_expense.id = NoId
  THEN IF v_expense.description = NULL
       THEN [st EXCEPT !.raised = TRUE]
       ELSE [st EXCEPT
               !.db.additional_expenses =
                  @ \cup {[id |-> st.db.next_expense, monthly_bill_id |-> v_bill_id,
                           description |-> v_expense.description]},
               !.db.next_expense = @ + 1]
  ELSE [st EXCEPT !.ids = Append(@, v_expense.id)]

\* One iteration of FOR v_expense IN ... LOOP: insert the expense when it has
\* no id, else update the row with that id attached to v_bill_id (no row: the
\* UPDATE changes nothing and does not raise); append the id either way.
\* st = [db, raised, ids].
ProcessExpense(st, v_bill_id, v_expense) ==
  IF st.raised THEN st
  ELSE IF v_expense.id = NoId
  THEN IF v_expense.description = NULL
       THEN [st EXCEPT !.raised = TRUE]
       ELSE [st EXCEPT
               !.db.additional_expenses =
                  @ \cup {[id |-> st.db.next_expense, monthly_bill_id |-> v_bill_id,
                           description |-> v_expense.description]},
               !.db.next_expense = @ + 1,
               !.ids = Append(@, st.db.next_expense)]
  ELSE LET hit == {r \in st.db.additional_expenses :
                     r.id = v_expense.id /\ r.monthly_bill_id = v_bill_id}
       IN IF hit # {} /\ v_expense.description = NULL
          THEN [st EXCEPT !.raised = TRUE]
          ELSE [st EXCEPT
                  !.db.additional_expenses =
                     (@ \ hit) \cup {[r EXCEPT !.description = v_expense.description] : r \in hit},
                  !.ids = Append(@, v_expense.id)]

\* One iteration of FOR v_payment IN ... LOOP, as for expenses; the CHECK on
\* payment_type rejects a type other than 'cash' and 'online'.
ProcessPayment(st, v_bill_id, v_payment) ==
  IF st.raised THEN st
  ELSE IF v_payment.id = NoId
  THEN IF v_payment.payment_type \notin {"cash", "online"}
       THEN [st EXCEPT !.raised = TRUE]
       ELSE [st EXCEPT
               !.db.bill_payments =
                  @ \cup {[id |-> st.db.next_payment, monthly_bill_id |-> v_bill_id,
                           payment_type |-> v_payment.payment_type]},
               !.db.next_payment = @ + 1,
               !.ids = Append(@, st.db.next_payment)]
  ELSE LET hit == {r \in st.db.bill_payments :
                     r.id = v_payment.id /\ r.monthly_bill_id = v_bill_id}
       IN IF hit # {} /\ v_payment.payment_type \notin {"cash", "online"}
          THEN [st EXCEPT !.raised = TRUE]
          ELSE [st EXCEPT
                  !.db.bill_payments =
                     (@ \ hit) \cup {[r EXCEPT !.payment_type = v_payment.payment_type] : r \in hit},
                  !.ids = Append(@, v_payment.id)]

RECURSIVE ProcessExpenses(_, _, _, _)
ProcessExpenses(st, v_bill_id, p_expenses, i) ==
  IF i > Len(p_expenses) THEN st
  ELSE ProcessExpenses(ProcessExpense(st, v_bill_id, p_expenses[i]), v_bill_id, p_expenses, i + 1)

RECURSIVE ProcessPayments(_, _, _, _)
ProcessPayments(st, v_bill_id, p_payments, i) ==
  IF i > Len(p_payments) THEN st
  ELSE ProcessPayments(ProcessPayment(st, v_bill_id, p_payments[i]), v_bill_id, p_payments, i + 1)

\* What the function leaves in the store when a statement raised: PL/pgSQL
\* runs the function inside the caller's transaction, which the error aborts.
Rollback_partial(d, changed) == changed

Rollback(d, changed) == d

\* The function's outcome: [db, raised, step, bill_id, expense_ids, payment_ids].
\* step names the statement that raised ("" when none did).
save_bill_complete(d, p_bill_data, p_expenses, p_payments, p_user_id) ==
  LET up  == UpsertBill(d, p_bill_data, p_user_id)
      d1  == DeletePaymentsNotIn(DeleteExpensesNotIn(up.db, up.v_bill_id, p_expenses),
                                 up.v_bill_id, p_payments)
      ex  == ProcessExpenses([db |-> d1, raised |-> FALSE, ids |-> <<>>],
                             up.v_bill_id, p_expenses, 1)
      pay == ProcessPayments([db |-> ex.db, raised |-> FALSE, ids |-> <<>>],
                             up.v_bill_id, p_payments, 1)
      fail(step, changed) ==
        [db |-> Rollback(d, changed), raised |-> TRUE, step |-> step,
         bill_id |-> 0, expense_ids |-> <<>>, payment_ids |-> <<>>]
  IN IF up.raised THEN fail("bill", up.db)
     ELSE IF ex.raised THEN fail("expenses", ex.db)
     ELSE IF pay.raised THEN fail("payments", pay.db)
     ELSE [db |-> pay.db, raised |-> FALSE, step |-> "",
           bill_id |-> up.v_bill_id, expense_ids |-> ex.ids, payment_ids |-> pay.ids]

----------------------------------------------------------------------------
(* get_bill_with_details: the three versions of the SQL function the       *)
(* repository ships, and the decomposed reads of the service.              *)

\* The bill as the JSON object of the result (row_to_json).
BillJson(b) ==
  [id |-> b.id, renter_id |-> b.renter_id, month |-> b.month, year |-> b.year,
   rent_amount |-> b.rent_amount,
   electricity_final_reading |-> b.electricity_final_reading,
   motor_final_reading |-> b.motor_final_reading]

\* json_build_object('id', ae.id, 'description', ae.description, ...)
ExpenseJson(r) == [id |-> r.id, description |-> r.description]

\* json_build_object('id', bp.id, ..., 'payment_type', bp.payment_type, ...)
PaymentJson(r) == [id |-> r.id, payment_type |-> r.payment_type]

ZeroReadings == [electricity_final |-> 0, motor_final |-> 0]

\* json_build_object('electricity_final', COALESCE(electricity_final_reading, 0), ...)
\* of the first row of `rows`; `rows` holds at most one row per UNIQUE(renter_id, month, year).
ReadingsOf(rows) ==
  IF rows = {} THEN ZeroReadings
  ELSE LET p == CHOOSE b \in rows : TRUE
       IN [electricity_final |-> p.electricity_final_reading,
           motor_final |-> p.motor_final_reading]

\* WHERE renter_id = p_renter_id AND month = p_month AND year = p_year AND user_id = p_user_id
bill_data(d, p_renter_id, p_month, p_year, p_user_id) ==
  {b \in BillsAt(d, p_renter_id, p_month, p_year) : b.user_id = p_user_id}

NoBillResult_zero(readings) ==
  [bill |-> {}, expenses |-> {}, payments |-> {}, previous_readings |-> ZeroReadings]

\* The result when no current bill is reported.
NoBillResult(readings) ==
  [bill |-> {}, expenses |-> {}, payments |-> {}, previous_readings |-> readings]

\* The result built from the bill rows bd (zero or one) and their children.
BillResult(d, bd, readings) ==
  [bill |-> {BillJson(b) : b \in bd},
   expenses |-> {ExpenseJson(r) : r \in
                   {x \in d.additional_expenses : \E b \in bd : x.monthly_bill_id = b.id}},
   payments |-> {PaymentJson(r) : r \in
                   {x \in d.bill_payments : \E b \in bd : x.monthly_bill_id = b.id}},
   previous_readings |-> readings]

\* What supabase.rpc('get_bill_with_details') yields: { data } or { error }.
RpcData(result) == [raised |-> FALSE, result |-> result]
RpcError == [raised |-> TRUE, result |-> NoBillResult(ZeroReadings)]

\* database-performance-optimization.sql: four scalar subqueries; the previous
\* period is matched by (year = p_year AND month = p_month - 1) OR
\* (year = p_year - 1 AND month = 12 AND p_month = 1).
get_bill_with_details_dpo(d, p_renter_id, p_month, p_year, p_user_id) ==
  LET bd   == bill_data(d, p_renter_id, p_month, p_year, p_user_id)
      prev == {b \in d.monthly_bills :
                 /\ b.renter_id = p_renter_id
                 /\ b.user_id = p_user_id
                 /\ \/ (b.year = p_year /\ b.month = p_month - 1)
                    \/ (b.year = p_year - 1 /\ b.month = 12 /\ p_month = 1)}
  IN RpcData(BillResult(d, bd, ReadingsOf(prev)))

\* IF p_month = 1 THEN v_prev_month := 12; v_prev_year := p_year - 1; ELSE ...
PrevPeriodSql(p_month, p_year) ==
  IF p_month = 1 THEN <<12, p_year - 1>> ELSE <<p_month - 1, p_year>>

\* The previous_readings CTE of simple-schema.sql and of the optimized function.
previous_readings(d, p_renter_id, p_month, p_year, p_user_id) ==
  LET pp == PrevPeriodSql(p_month, p_year)
  IN bill_data(d, p_renter_id, pp[1], pp[2], p_user_id)

\* IF v_result IS NULL THEN SELECT ... INTO v_result FROM previous_readings pr:
\* a statement of its own, outside the WITH that defined previous_readings,
\* and the schema has no relation of that name: the statement raises
\* (relation "previous_readings" does not exist) and the function with it.
NoCurrentBillBranch == RpcError

\* simple-schema.sql: FROM bill_data bd CROSS JOIN previous_readings pr CROSS
\* JOIN expenses_agg ea CROSS JOIN payments_agg pa yields a row only when both
\* bill_data and previous_readings have one; otherwise v_result IS NULL.
get_bill_with_details_simple(d, p_renter_id, p_month, p_year, p_user_id) ==
  LET bd == bill_data(d, p_renter_id, p_month, p_year, p_user_id)
      pr == previous_readings(d, p_renter_id, p_month, p_year, p_user_id)
  IN IF bd # {} /\ pr # {} THEN RpcData(BillResult(d, bd, ReadingsOf(pr)))
     ELSE NoCurrentBillBranch

\* The optimized function: FROM bill_data bd LEFT JOIN previous_readings pr ON
\* true LEFT JOIN bill_expenses ... yields a row whenever bill_data has one.
get_bill_with_details_optimized(d, p_renter_id, p_month, p_year, p_user_id) ==
  LET bd == bill_data(d, p_renter_id, p_month, p_year, p_user_id)
      pr == previous_readings(d, p_renter_id, p_month, p_year, p_user_id)
  IN IF bd # {} THEN RpcData(BillResult(d, bd, ReadingsOf(pr)))
     ELSE NoCurrentBillBranch

\* Which get_bill_with_details the store runs: one of the three versions the
\* repository ships, or none ("fallback": the rpc call reports an error).
RpcPaths == {"dpo", "simple", "optimized"}
FetchPaths == RpcPaths \cup {"fallback"}

get_bill_with_details(path, d, p_renter_id, p_month, p_year, p_user_id) ==
  CASE path = "dpo" -> get_bill_with_details_dpo(d, p_renter_id, p_month, p_year, p_user_id)
    [] path = "simple" -> get_bill_with_details_simple(d, p_renter_id, p_month, p_year, p_user_id)
    [] path = "optimized" -> get_bill_with_details_optimized(d, p_renter_id, p_month, p_year, p_user_id)
    [] OTHER -> RpcError

\* SupabaseService.getMonthlyBill: the bill rows it returns (none for null).
\* 'User not authenticated' and 'Renter not found or access denied' are thrown
\* inside its own try and caught there: it returns null.
getMonthlyBill(d, user, renterId, month, year) ==
  IF user = NoUser THEN {}
  ELSE IF ~(renterId \in DOMAIN renters /\ renters[renterId] = user) THEN {}
  ELSE bill_data(d, renterId, month, year, user)

getPreviousMonthBill_noWrap(d, user, renterId, month, year) ==
  getMonthlyBill(d, user, renterId, month - 1, year)

\* SupabaseService.getPreviousMonthBill
getPreviousMonthBill(d, user, renterId, month, year) ==
  LET prevMonth == IF month - 1 = 0 THEN 12 ELSE month - 1
      prevYear  == IF month - 1 = 0 THEN year - 1 ELSE year
  IN getMonthlyBill(d, user, renterId, prevMonth, prevYear)

\* SupabaseService.getAdditionalExpenses
getAdditionalExpenses(d, user, monthlyBillId) ==
  IF user = NoUser THEN {}
  ELSE {ExpenseJson(r) : r \in ChildrenOf(d.additional_expenses, monthlyBillId)}

\* SupabaseService.getBillPayments
getBillPayments(d, user, monthlyBillId) ==
  IF user = NoUser THEN {}
  ELSE {PaymentJson(r) : r \in ChildrenOf(d.bill_payments, monthlyBillId)}

\* The four reads of the decomposed path.
ReadNames == {"bill", "previous", "expenses", "payments"}

\* What a read hands its caller when the store reports an error or the call
\* throws: every read catches, logs and returns null or [] (no rows).
Caught(failed, rows) == IF failed THEN {} ELSE rows

\* The catch (rpcError) branch of getBillWithDetails: parallel queries, the
\* reads named in `failing` failing at the store.
FallbackQueriesUnder(d, user, renterId, month, year, failing) ==
  LET bill         == Caught("bill" \in failing,
                             getMonthlyBill(d, user, renterId, month, year))
      previousBill == Caught("previous" \in failing,
                             getPreviousMonthBill(d, user, renterId, month, year))
      readings     == ReadingsOf(previousBill)
  IN IF bill = {} THEN NoBillResult(readings)
     ELSE LET b == CHOOSE x \in bill : TRUE
          IN [bill |-> {BillJson(b)},
              expenses |-> Caught("expenses" \in failing,
                                  getAdditionalExpenses(d, user, b.id)),
              payments |-> Caught("payments" \in failing,
                                  getBillPayments(d, user, b.id)),
              previous_readings |-> readings]

\* The parallel queries over a store that answers every read.
FallbackQueries(d, user, renterId, month, year) ==
  FallbackQueriesUnder(d, user, renterId, month, year, {})

----------------------------------------------------------------------------
(* The service methods, each run through RetryableQuery.execute.  In       *)
(* SpecStore the transport always answers, so an attempt throws only when   *)
(* there is no signed-in user or the store function raised.                 *)

\* RetryableQuery.maxRetries
maxRetries == 2

\* SupabaseService.saveBillComplete: the for loop of RetryableQuery.execute
\* around the rpc('save_bill_complete') attempt, from attempt number `attempt`.
\* Yields [db, ok, step, bill_id, expense_ids, payment_ids, attempts].
RECURSIVE saveBillCompleteFrom(_, _, _, _, _, _)
saveBillCompleteFrom(d, user, billData, expenses, payments, attempt) ==
  LET r == IF user = NoUser
           THEN [db |-> d, raised |-> TRUE, step |-> "auth",
                 bill_id |-> 0, expense_ids |-> <<>>, payment_ids |-> <<>>]
           ELSE save_bill_complete(d, billData, expenses, payments, user)
  IN IF ~r.raised
     THEN [db |-> r.db, ok |-> TRUE, step |-> "", bill_id |-> r.bill_id,
           expense_ids |-> r.expense_ids, payment_ids |-> r.payment_ids,
           attempts |-> attempt + 1]
     ELSE IF attempt < maxRetries
     THEN saveBillCompleteFrom(r.db, user, billData, expenses, payments, attempt + 1)
     ELSE [db |-> r.db, ok |-> FALSE, step |-> r.step, bill_id |-> 0,
           expense_ids |-> <<>>, payment_ids |-> <<>>, attempts |-> attempt + 1]

saveBillComplete(d, user, billData, expenses, payments) ==
  saveBillCompleteFrom(d, user, billData, expenses, payments, 0)

\* SupabaseService.getBillWithDetails: the rpc, and the parallel queries when
\* the rpc reports an error.  Every attempt reads the same store, so the call
\* answers on the first attempt or throws 'User not authenticated' on each of
\* the maxRetries + 1 attempts.  The reads named in `failing` fail at the
\* store.  Yields [ok, data, attempts, fellBack].
getBillWithDetailsUnder(d, user, renterId, month, year, path, failing) ==
  IF user = NoUser
  THEN [ok |-> FALSE, data |-> NoBillResult(ZeroReadings), attempts |-> maxRetries + 1,
        fellBack |-> FALSE]
  ELSE LET rpc == get_bill_with_details(path, d, renterId, month, year, user)
       IN [ok |-> TRUE,
           data |-> IF rpc.raised
                    THEN FallbackQueriesUnder(d, user, renterId, month, year, failing)
                    ELSE rpc.result,
           attempts |-> 1,
           fellBack |-> rpc.raised]

\* getBillWithDetails over a store that answers every read.
getBillWithDetails(d, user, renterId, month, year, path) ==
  getBillWithDetailsUnder(d, user, renterId, month, year, path, {})

----------------------------------------------------------------------------
(* SpecStore: service calls against the store, one at a time *)

SeqsUpTo(S, n) == UNION {[1..k -> S] : k \in 0..n}

\* No two entries of a client's child list carry the same assigned identity.
DistinctAssigned(l) ==
  \A i, j \in 1..Len(l) : (i # j /\ l[i].id # NoId) => l[i].id # l[j].id

\* Incoming expense lists: each child unassigned or carrying an identity the
\* store has handed out before (still held or not).
ExpenseLists(d) ==
  {l \in SeqsUpTo([id : {NoId} \cup (1..(d.next_expense - 1)), description : Descriptions],
                  MaxExpenses) : DistinctAssigned(l)}

PaymentLists(d) ==
  {l \in SeqsUpTo([id : {NoId} \cup (1..(d.next_payment - 1)), payment_type : PaymentTypes],
                  MaxPayments) : DistinctAssigned(l)}

\* Bills to save: for the caller's renter 1, and the bill of a renter that
\* does not exist (testRollbackOnFailure's invalid bill).
BillInputs ==
  {[renter_id |-> 1, month |-> p[1], year |-> p[2], rent_amount |-> f.rent_amount,
    electricity_final_reading |-> f.electricity_final_reading,
    motor_final_reading |-> f.motor_final_reading] : p \in Periods, f \in BillFields}
  \cup
  {[renter_id |-> 3, month |-> 1, year |-> 2025, rent_amount |-> 6000,
    electricity_final_reading |-> 0, motor_final_reading |-> 0]}

\* Renters a fetch asks for: the caller's, another user's, one that does not exist.
FetchRenters == {1, 2, 3}

\* Periods a fetch asks for: those saved, and the month after them.
FetchPeriods == Periods \cup {<<2, 2025>>}

NoCall == [op |-> "none"]
NoRun == [pc |-> "idle"]
NoCache == [k \in {} |-> 0]
NoDone == [id |-> 0]
NoLoads == [n |-> 0, loads |-> {}, done |-> NoDone]

InitStore ==
  /\ db = EmptyDb
  /\ last = NoCall
  /\ nsaves = 0
  /\ rq = NoRun
  /\ cache = NoCache
  /\ now = 0
  /\ fc = NoCall
  /\ pl = NoLoads
  /\ net = {}

\* A call is issued once the caller has taken the outcome of the one before.
SaveCall(user, billData, expenses, payments) ==
  /\ last = NoCall
  /\ nsaves < MaxSaves
  /\ LET r == saveBillComplete(db, user, billData, expenses, payments)
     IN /\ db' = r.db
        /\ last' = [op |-> "save", user |-> user, billData |-> billData,
                    expenses |-> expenses, payments |-> payments,
                    ok |-> r.ok, step |-> r.step, bill_id |-> r.bill_id,
                    expense_ids |-> r.expense_ids, payment_ids |-> r.payment_ids,
                    attempts |-> r.attempts]
  /\ nsaves' = nsaves + 1
  /\ UNCHANGED <<rq, cache, now, fc, pl, net>>

FetchCall(user, renterId, month, year, path) ==
  /\ last = NoCall
  /\ LET r == getBillWithDetails(db, user, renterId, month, year, path)
     IN last' = [op |-> "fetch", user |-> user, renterId |-> renterId,
                 month |-> month, year |-> year, path |-> path,
                 ok |-> r.ok, data |-> r.data, attempts |-> r.attempts,
                 fellBack |-> r.fellBack]
  /\ UNCHANGED <<db, nsaves, rq, cache, now, fc, pl, net>>

\* The caller takes the outcome of the completed call.
TakeOutcome ==
  /\ last # NoCall
  /\ last' = NoCall
  /\ UNCHANGED <<db, nsaves, rq, cache, now, fc, pl, net>>

NextStore ==
  \/ /\ last = NoCall
     /\ nsaves < MaxSaves
     /\ \E billData \in BillInputs, expenses \in ExpenseLists(db), payments \in PaymentLists(db) :
          SaveCall("u1", billData, expenses, payments)
  \/ /\ last = NoCall
     /\ \E user \in {"u1", NoUser}, renterId \in FetchRenters, p \in FetchPeriods,
           path \in FetchPaths :
          FetchCall(user, renterId, p[1], p[2], path)
  \/ TakeOutcome

SpecStore == InitStore /\ [][NextStore]_vars

----------------------------------------------------------------------------
(* SpecRetry: RetryableQuery.execute(queryFn, context) with queryFn =       *)
(* () => queryWithTimeout(op, 5000), as the service methods call it.  Time  *)
(* is in milliseconds.                                                      *)

\* RetryableQuery.baseDelay
baseDelay == 1000

\* queryWithTimeout's timeoutMs, as every caller passes it.
timeoutMs == 5000

LoopContinues_short(attempt) == attempt < maxRetries

\* for (let attempt = 0; attempt <= this.maxRetries; attempt++)
LoopContinues(attempt) == attempt <= maxRetries

\* if (attempt < this.maxRetries): back off before the next attempt.
ShouldBackoff(attempt) == attempt < maxRetries

backoffDelay_linear(attempt) == baseDelay * attempt

\* const delay = this.baseDelay * Math.pow(2, attempt)
backoffDelay(attempt) == baseDelay * 2^attempt

\* How one attempt of the wrapped operation behaves: it resolves with a value
\* or rejects with a cause after `ms`, or it never settles (ms = -1).
OpBehaviours ==
  [kind : {"resolves"}, v : {"r1", "r2"}, ms : {100, 6000}]
  \cup [kind : {"rejects"}, v : {"e1", "e2"}, ms : {100}]
  \cup [kind : {"never"}, v : {"-"}, ms : {-1}]

TimeoutCause == "Query timeout - operation took longer than expected"

queryWithTimeout_untimed(b) == b

queryWithTimeout_awaitingFirst(b) ==
  IF b.kind # "never" /\ b.ms > timeoutMs
  THEN [kind |-> "rejects", v |-> TimeoutCause, ms |-> timeoutMs]
  ELSE b

\* queryWithTimeout: Promise.race of the operation and the timer.  Yields how
\* the attempt settles: [kind, v, ms] with kind "resolves" or "rejects".
queryWithTimeout(b) ==
  IF b.kind = "never" \/ b.ms > timeoutMs
  THEN [kind |-> "rejects", v |-> TimeoutCause, ms |-> timeoutMs]
  ELSE b

Contexts == {"getBillWithDetails", "saveBillComplete"}

InitRetry ==
  /\ db = EmptyDb
  /\ last = NoCall
  /\ nsaves = 0
  /\ rq = NoRun
  /\ cache = NoCache
  /\ now = 0
  /\ fc = NoCall
  /\ pl = NoLoads
  /\ net = {}

\* execute(queryFn, context) is called.
Execute(context) ==
  /\ rq.pc = "idle"
  /\ rq' = [pc |-> "attempt", context |-> context, attempt |-> 0, t |-> 0,
            behaviours |-> <<>>, starts |-> <<>>, ends |-> <<>>, waits |-> <<>>,
            lastError |-> "-", result |-> "-", error |-> [context |-> "-", cause |-> "-"]]
  /\ UNCHANGED <<db, last, nsaves, cache, now, fc, pl, net>>

\* The wrapper's state after attempt number rq.attempt rejected with `cause`
\* at time `t`: the catch block, then the loop's next test.
AfterCatch(r, cause, t) ==
  LET caught == [r EXCEPT !.lastError = cause, !.t = t, !.ends = Append(@, t)]
  IN IF ShouldBackoff(r.attempt)
     THEN [caught EXCEPT !.pc = "backoff"]
     ELSE IF LoopContinues(r.attempt + 1)
     THEN [caught EXCEPT !.pc = "attempt", !.attempt = @ + 1]
     ELSE [caught EXCEPT !.pc = "thrown",
                         !.error = [context |-> r.context, cause |-> cause]]

\* One pass of the loop body: await queryFn(), the operation behaving as b.
\* A promise that never settles leaves the loop at its await for good.
Attempt(b) ==
  /\ rq.pc = "attempt"
  /\ LET s  == queryWithTimeout(b)
         r1 == [rq EXCEPT !.behaviours = Append(@, b), !.starts = Append(@, rq.t)]
     IN rq' = IF s.kind = "resolves"
              THEN [r1 EXCEPT !.pc = "returned", !.result = s.v,
                              !.t = rq.t + s.ms, !.ends = Append(@, rq.t + s.ms)]
              ELSE IF s.kind = "rejects"
              THEN AfterCatch(r1, s.v, rq.t + s.ms)
              ELSE [r1 EXCEPT !.pc = "awaiting"]
  /\ UNCHANGED <<db, last, nsaves, cache, now, fc, pl, net>>

\* await new Promise(resolve => setTimeout(resolve, delay)); the timer fires
\* after delay, or later when the event loop is busy (late = 0 or 50 ms).
Backoff(late) ==
  /\ rq.pc = "backoff"
  /\ LET delay == backoffDelay(rq.attempt)
     IN rq' = IF LoopContinues(rq.attempt + 1)
              THEN [rq EXCEPT !.pc = "attempt", !.attempt = @ + 1,
                              !.t = @ + delay + late, !.waits = Append(@, delay)]
              ELSE [rq EXCEPT !.pc = "thrown", !.t = @ + delay + late,
                              !.waits = Append(@, delay),
                              !.error = [context |-> rq.context, cause |-> rq.lastError]]
  /\ UNCHANGED <<db, last, nsaves, cache, now, fc, pl, net>>

NextRetry ==
  \/ \E context \in Contexts : Execute(context)
  \/ \E b \in OpBehaviours : Attempt(b)
  \/ \E late \in {0, 50} : Backoff(late)

SpecRetry == InitRetry /\ [][NextRetry]_vars

\* The same wrapper under the scheduling of the event loop: a promise that
\* settles is resumed from, and a timer that is set fires.  Nothing obliges a
\* caller to call execute.
SpecRetryFair ==
  /\ InitRetry
  /\ [][NextRetry]_vars
  /\ WF_vars(\E b \in OpBehaviours : Attempt(b))
  /\ WF_vars(\E late \in {0, 50} : Backoff(late))

----------------------------------------------------------------------------
(* BillCache: the client cache.  The Map is a function from key to entry;   *)
(* every operation takes the Map (and Date.now() where it reads the clock)  *)
(* and yields the Map it leaves.  Time is in minutes.                       *)

\* BillCache.CACHE_TTL = 15 * 60 * 1000 ms
CACHE_TTL == 15

DigitChars == <<"0", "1", "2", "3", "4", "5", "6", "7", "8", "9">>

\* The decimal digits of a natural number, as a template literal prints it.
RECURSIVE Digits(_)
Digits(n) ==
  IF n < 10 THEN <<DigitChars[n + 1]>>
  ELSE Digits(n \div 10) \o <<DigitChars[(n % 10) + 1]>>

getCacheKey_unseparated(renterId, month, year) ==
  Digits(renterId) \o Digits(year) \o Digits(month)

\* `${renterId}-${year}-${month}`: the key string, character by character.
getCacheKey(renterId, month, year) ==
  Digits(renterId) \o <<"-">> \o Digits(year) \o <<"-">> \o Digits(month)

get_missing(c, t, renterId, month, year) == [cache |-> c, data |-> {}]

get_evicting(c, t, renterId, month, year) ==
  LET key == getCacheKey(renterId, month, year)
  IN IF key \notin DOMAIN c
     THEN [cache |-> c, data |-> {}]
     ELSE IF t - c[key].timestamp > CACHE_TTL
     THEN [cache |-> [k \in DOMAIN c \ {key} |-> c[k]], data |-> {}]
     ELSE [cache |-> c, data |-> {c[key].data}]

get_creating(c, t, renterId, month, year) ==
  LET key == getCacheKey(renterId, month, year)
  IN IF key \notin DOMAIN c
     THEN [cache |-> [k \in DOMAIN c \cup {key} |->
                        IF k = key THEN [data |-> {}, timestamp |-> t, isStale |-> FALSE]
                        ELSE c[k]],
           data |-> {}]
     ELSE [cache |-> c, data |-> {c[key].data}]

get_restamping(c, t, renterId, month, year) ==
  LET key == getCacheKey(renterId, month, year)
  IN IF key \notin DOMAIN c
     THEN [cache |-> c, data |-> {}]
     ELSE [cache |-> IF t - c[key].timestamp > CACHE_TTL
                     THEN [c EXCEPT ![key].timestamp = t]
                     ELSE c,
           data |-> {c[key].data}]

\* BillCache.get: yields the Map it leaves and the data returned (no data for
\* null).  An entry older than CACHE_TTL is marked stale in place and returned.
get(c, t, renterId, month, year) ==
  LET key == getCacheKey(renterId, month, year)
  IN IF key \notin DOMAIN c
     THEN [cache |-> c, data |-> {}]
     ELSE [cache |-> IF t - c[key].timestamp > CACHE_TTL
                     THEN [c EXCEPT ![key].isStale = TRUE]
                     ELSE c,
           data |-> {c[key].data}]

\* BillCache.isStale
isStale(c, t, renterId, month, year) ==
  LET key == getCacheKey(renterId, month, year)
  IN IF key \notin DOMAIN c THEN FALSE
     ELSE t - c[key].timestamp > CACHE_TTL

set_keepingTimestamp(c, t, renterId, month, year, data) ==
  LET key == getCacheKey(renterId, month, year)
  IN [k \in DOMAIN c \cup {key} |->
        IF k = key
        THEN [data |-> data,
              timestamp |-> IF key \in DOMAIN c THEN c[key].timestamp ELSE t,
              isStale |-> FALSE]
        ELSE c[k]]

\* BillCache.set
set(c, t, renterId, month, year, data) ==
  LET key == getCacheKey(renterId, month, year)
  IN [k \in DOMAIN c \cup {key} |->
        IF k = key THEN [data |-> data, timestamp |-> t, isStale |-> FALSE]
        ELSE c[k]]

invalidate_stale(c, renterId, month, year) ==
  LET key == getCacheKey(renterId, month, year)
  IN [k \in DOMAIN c |-> IF k = key THEN [c[k] EXCEPT !.isStale = TRUE] ELSE c[k]]

invalidate_keeping(c, renterId, month, year) == c

\* BillCache.invalidate
invalidate(c, renterId, month, year) ==
  LET key == getCacheKey(renterId, month, year)
  IN [k \in DOMAIN c \ {key} |-> c[k]]

clear_keeping(c) == c

\* BillCache.clear
clear(c) == NoCache

----------------------------------------------------------------------------
(* The facade: display(tenant, month, year) and save(tenant, month, year,   *)
(* aggregate) of the presentation layer, over the cache, getBillWithDetails *)
(* and saveBillComplete.  One call at a time; no preload in flight.         *)

\* A set of rows with distinct ids as the array ordered by id.
RECURSIVE SeqById(_)
SeqById(S) ==
  IF S = {} THEN <<>>
  ELSE LET m == CHOOSE x \in S : \A y \in S : x.id <= y.id
       IN <<m>> \o SeqById(S \ {m})

\* The fetched BillWithDetails as the MonthData the cache holds: the bill's
\* fields and children, or a fresh month carrying the previous readings forward.
ToMonthData(r) ==
  IF r.bill = {}
  THEN [rentAmount |-> 6000,
        electricityFinal |-> r.previous_readings.electricity_final,
        motorFinal |-> r.previous_readings.motor_final,
        additionalExpenses |-> <<>>, payments |-> <<>>]
  ELSE LET b == CHOOSE x \in r.bill : TRUE
       IN [rentAmount |-> b.rent_amount,
           electricityFinal |-> b.electricity_final_reading,
           motorFinal |-> b.motor_final_reading,
           additionalExpenses |-> SeqById(r.expenses),
           payments |-> SeqById(r.payments)]

\* The MonthlyBill a save sends for an aggregate.
ToBillData(renterId, month, year, A) ==
  [renter_id |-> renterId, month |-> month, year |-> year,
   rent_amount |-> A.rentAmount,
   electricity_final_reading |-> A.electricityFinal,
   motor_final_reading |-> A.motorFinal]

\* The children with the returned identities: child i, if unassigned, takes
\* entry i of the returned list.
WithIds(children, ids) ==
  [i \in 1..Len(children) |->
     IF children[i].id = NoId /\ i <= Len(ids)
     THEN [children[i] EXCEPT !.id = ids[i]]
     ELSE children[i]]

\* The aggregate with the identities of a successful save reconciled in.
Reconciled(A, expense_ids, payment_ids) ==
  [A EXCEPT !.additionalExpenses = WithIds(@, expense_ids),
            !.payments = WithIds(@, payment_ids)]

\* Aggregates the presentation layer saves for a key: any bill fields; each
\* child new, or an edit of a child the store holds for that key's bill.
FacadeAggregates(d, renterId, month, year) ==
  LET bills == {b.id : b \in BillsAt(d, renterId, month, year)}
      heldE == {r.id : r \in {x \in d.additional_expenses : x.monthly_bill_id \in bills}}
      heldP == {r.id : r \in {x \in d.bill_payments : x.monthly_bill_id \in bills}}
      es == {l \in SeqsUpTo([id : {NoId} \cup heldE, description : {"a", NULL}], MaxExpenses) :
               DistinctAssigned(l)}
      ps == {l \in SeqsUpTo([id : {NoId} \cup heldP, payment_type : PaymentTypes], MaxPayments) :
               DistinctAssigned(l)}
  IN {[rentAmount |-> f.rent_amount,
       electricityFinal |-> f.electricity_final_reading,
       motorFinal |-> f.motor_final_reading,
       additionalExpenses |-> e, payments |-> p] : f \in BillFields, e \in es, p \in ps}

\* Instants of the clock the calls happen at.
Times == {0, 20}

\* No facade call in progress; prev is the call that returned last: its
\* operation, its key and whether it succeeded.
Idle(prev) == [op |-> "none", prev |-> prev]

NoPrev == [op |-> "none", key |-> <<0, 0, 0>>, ok |-> TRUE]

InitFacade ==
  /\ db = EmptyDb
  /\ last = NoCall
  /\ nsaves = 0
  /\ rq = NoRun
  /\ cache = NoCache
  /\ now = 0
  /\ fc = Idle(NoPrev)
  /\ pl = NoLoads
  /\ net = {}

FacadeIdle == fc.op = "none"

\* The call that returned just before the one being issued.
PrevOutcome == fc.prev

\* display: check the cache; a hit returns the cached data at once, a miss
\* goes to the Aggregate Fetcher.
DisplayBegin(renterId, month, year) ==
  /\ FacadeIdle
  /\ LET g == get(cache, now, renterId, month, year)
         call == [op |-> "display", key |-> <<renterId, month, year>>,
                  prev |-> PrevOutcome, user |-> NoUser, path |-> "", answers |-> FALSE]
     IN /\ cache' = g.cache
        /\ fc' = IF g.data # {}
                 THEN call @@ [pc |-> "returned", ok |-> TRUE, fetched |-> FALSE, data |-> g.data]
                 ELSE call @@ [pc |-> "fetching", ok |-> FALSE, fetched |-> FALSE, data |-> {}]
  /\ UNCHANGED <<db, last, nsaves, rq, now, pl, net>>

\* display, after the Aggregate Fetcher settled: store the fetched aggregate
\* and return it, or return the error.  `user` is the signed-in user the
\* attempts found, `path` the read that answered, `answers` whether the store
\* answered the attempts in time.
DisplaySettle(user, path, answers) ==
  /\ fc.op = "display"
  /\ fc.pc = "fetching"
  /\ LET r == getBillWithDetails(db, user, fc.key[1], fc.key[2], fc.key[3], path)
         settled == [fc EXCEPT !.pc = "returned", !.fetched = TRUE, !.user = user,
                               !.path = path, !.answers = answers]
     IN IF answers /\ r.ok
        THEN /\ cache' = set(cache, now, fc.key[1], fc.key[2], fc.key[3], ToMonthData(r.data))
             /\ fc' = [settled EXCEPT !.ok = TRUE, !.data = {ToMonthData(r.data)}]
        ELSE /\ cache' = cache
             /\ fc' = [settled EXCEPT !.ok = FALSE]
  /\ UNCHANGED <<db, last, nsaves, rq, now, pl, net>>

\* save: write the optimistic aggregate into the cache, then call the
\* Reconciliation Writer.
SaveBegin(renterId, month, year, A) ==
  /\ FacadeIdle
  /\ nsaves < MaxSaves
  /\ cache' = set(cache, now, renterId, month, year, A)
  /\ fc' = [op |-> "save", pc |-> "saving", user |-> NoUser,
            key |-> <<renterId, month, year>>, A |-> A, prev |-> PrevOutcome,
            ok |-> FALSE, bill_id |-> 0,
            expense_ids |-> <<>>, payment_ids |-> <<>>]
  /\ nsaves' = nsaves + 1
  /\ UNCHANGED <<db, last, rq, now, pl, net>>

SaveSettle_reconcilingAlways(user) ==
  /\ fc.op = "save"
  /\ fc.pc = "saving"
  /\ LET r == saveBillComplete(db, user,
                               ToBillData(fc.key[1], fc.key[2], fc.key[3], fc.A),
                               fc.A.additionalExpenses, fc.A.payments)
     IN /\ db' = r.db
        /\ cache' = set(cache, now, fc.key[1], fc.key[2], fc.key[3],
                        Reconciled(fc.A, r.expense_ids, r.payment_ids))
        /\ fc' = [fc EXCEPT !.pc = "returned", !.user = user, !.ok = r.ok,
                            !.bill_id = r.bill_id,
                            !.expense_ids = r.expense_ids, !.payment_ids = r.payment_ids]
  /\ UNCHANGED <<last, nsaves, rq, now, pl, net>>

\* save, after the Reconciliation Writer settled: on success reconcile the
\* returned identities into the cache entry; on failure invalidate the entry
\* and return the error.  `user` is the signed-in user the attempts found.
SaveSettle(user) ==
  /\ fc.op = "save"
  /\ fc.pc = "saving"
  /\ LET r == saveBillComplete(db, user,
                               ToBillData(fc.key[1], fc.key[2], fc.key[3], fc.A),
                               fc.A.additionalExpenses, fc.A.payments)
     IN /\ db' = r.db
        /\ cache' = IF r.ok
                    THEN set(cache, now, fc.key[1], fc.key[2], fc.key[3],
                             Reconciled(fc.A, r.expense_ids, r.payment_ids))
                    ELSE invalidate(cache, fc.key[1], fc.key[2], fc.key[3])
        /\ fc' = [fc EXCEPT !.pc = "returned", !.user = user, !.ok = r.ok,
                            !.bill_id = r.bill_id,
                            !.expense_ids = r.expense_ids, !.payment_ids = r.payment_ids]
  /\ UNCHANGED <<last, nsaves, rq, now, pl, net>>

\* The presentation layer has taken the outcome of the call.
FacadeReturn ==
  /\ fc.op # "none"
  /\ fc.pc = "returned"
  /\ fc' = Idle([op |-> fc.op, key |-> fc.key, ok |-> fc.ok])
  /\ UNCHANGED <<db, last, nsaves, rq, cache, now, pl, net>>

\* The cache is cleared between calls (this.cache.clear() of the cache tests).
ClearCache ==
  /\ FacadeIdle
  /\ cache' = clear(cache)
  /\ UNCHANGED <<db, last, nsaves, rq, now, fc, pl, net>>

\* Time passes.
Tick ==
  /\ IF fc.op = "none" THEN TRUE ELSE fc.pc # "returned"
  /\ \E t \in Times : t > now /\ now' = t
  /\ UNCHANGED <<db, last, nsaves, rq, cache, fc, pl, net>>

NextFacade ==
  \/ \E p \in Periods : DisplayBegin(1, p[1], p[2])
  \/ \E user \in {"u1", NoUser}, path \in FetchPaths, answers \in BOOLEAN :
       DisplaySettle(user, path, answers)
  \/ /\ FacadeIdle
     /\ nsaves < MaxSaves
     /\ \E p \in Periods :
          \E A \in FacadeAggregates(db, 1, p[1], p[2]) : SaveBegin(1, p[1], p[2], A)
  \/ \E user \in {"u1", NoUser} : SaveSettle(user)
  \/ FacadeReturn
  \/ ClearCache
  \/ Tick

SpecFacade == InitFacade /\ [][NextFacade]_vars

----------------------------------------------------------------------------
(* The preloader of BillCache: preload and loadIfNotCached, its reads      *)
(* being the service's decomposed reads.                                   *)

\* Number of preload calls in one behaviour of SpecPreload.
MaxPreloads == 2

PreloadTargets_noRollover(month, year) ==
  << <<month - 1, year>>, <<month + 1, year>> >>

\* BillCache.preload: the previous and the next (month, year).
PreloadTargets(month, year) ==
  LET prevMonth == IF month = 1 THEN 12 ELSE month - 1
      prevYear  == IF month = 1 THEN year - 1 ELSE year
      nextMonth == IF month = 12 THEN 1 ELSE month + 1
      nextYear  == IF month = 12 THEN year + 1 ELSE year
  IN << <<prevMonth, prevYear>>, <<nextMonth, nextYear>> >>

loadIfNotCached_always(c, t, renterId, month, year) ==
  [cache |-> get(c, t, renterId, month, year).cache, loads |-> TRUE]

\* loadIfNotCached's check, if (this.get(renterId, month, year)) return:
\* the Map as get leaves it, and whether the load goes on to read the store.
loadIfNotCached(c, t, renterId, month, year) ==
  LET g == get(c, t, renterId, month, year)
  IN [cache |-> g.cache, loads |-> g.data = {}]

\* Rows with distinct ids in the order of created_at descending, the newest
\* (highest id) first.
RECURSIVE SeqNewestFirst(_)
SeqNewestFirst(S) ==
  IF S = {} THEN <<>>
  ELSE LET m == CHOOSE x \in S : \A y \in S : x.id >= y.id
       IN <<m>> \o SeqNewestFirst(S \ {m})

\* The MonthData loadIfNotCached builds from an existing bill and its children.
LoadedMonthData(existingBill, expenses, billPayments) ==
  [rentAmount |-> existingBill.rent_amount,
   electricityFinal |-> existingBill.electricity_final_reading,
   motorFinal |-> existingBill.motor_final_reading,
   additionalExpenses |-> SeqNewestFirst(expenses),
   payments |-> SeqNewestFirst(billPayments)]

\* The fresh MonthData loadIfNotCached builds when it got no bill: the
\* previous bill's final readings, or 0 (previousBill?.x || 0).
FreshMonthData(monthlyRent, previousBill) ==
  [rentAmount |-> monthlyRent,
   electricityFinal |-> ReadingsOf(previousBill).electricity_final,
   motorFinal |-> ReadingsOf(previousBill).motor_final,
   additionalExpenses |-> <<>>,
   payments |-> <<>>]

----------------------------------------------------------------------------
(* SpecPreload and SpecFetch: preloads, and fetches, by the signed-in user  *)
(* over a store whose reads may fail, the store's rows staying as they are. *)

\* The signed-in user and the monthly rent of their renter.
ReadUser == "u1"
monthlyRent == 6000

\* The bill a store of these specifications was written with.
ReadBill(month, year, electricity, motor) ==
  [renter_id |-> 1, month |-> month, year |-> year, rent_amount |-> 6000,
   electricity_final_reading |-> electricity, motor_final_reading |-> motor]

\* Stores the reads run against: empty, after a save of December 2024, and
\* after a further save of January 2025 with an expense and a payment.
ReadStores ==
  LET s1 == saveBillComplete(EmptyDb, ReadUser, ReadBill(12, 2024, 600, 250),
                             <<[id |-> NoId, description |-> "a"]>>, <<>>).db
      s2 == saveBillComplete(s1, ReadUser, ReadBill(1, 2025, 700, 300),
                             <<[id |-> NoId, description |-> "b"]>>,
                             <<[id |-> NoId, payment_type |-> "cash"]>>).db
  IN {EmptyDb, s1, s2}

\* Date.now() at the instants of the cache tests: at a write, 6 minutes
\* later, and past CACHE_TTL.
ReadTimes == {0, 6, 20}

\* Failures of the reads of one fetch: none, one read, or all of them.
Failings == {{}} \cup {{r} : r \in ReadNames} \cup {ReadNames}

InitPreload ==
  /\ db \in ReadStores
  /\ last = NoCall
  /\ nsaves = 0
  /\ rq = NoRun
  /\ cache = NoCache
  /\ now = 0
  /\ fc = Idle(NoPrev)
  /\ pl = NoLoads
  /\ net = {}

\* The loads of pl at position pc.
LoadsAt(pc) == {l \in pl.loads : l.pc = pc}

preload_awaited(c, t, P, renterId, month, year) ==
  LET tg == PreloadTargets(month, year)
      c1 == set(c, t, renterId, tg[1][1], tg[1][2], FreshMonthData(monthlyRent, {}))
      c2 == set(c1, t, renterId, tg[2][1], tg[2][2], FreshMonthData(monthlyRent, {}))
  IN [cache |-> c2, pl |-> [P EXCEPT !.n = @ + 1]]

\* preload(renterId, month, year, monthlyRent): both loadIfNotCached calls run
\* up to their first await, and preload returns: the Promise.all of the two is
\* not awaited.  A load that passed the check is in flight, about to read the
\* bill.  Yields the Map and the preloader as the call leaves them.
preload(c, t, P, renterId, month, year) ==
  LET tg == PreloadTargets(month, year)
      c1 == loadIfNotCached(c, t, renterId, tg[1][1], tg[1][2])
      c2 == loadIfNotCached(c1.cache, t, renterId, tg[2][1], tg[2][2])
      load(i, goes) ==
        IF goes
        THEN {[id |-> 2 * P.n + i, key |-> <<renterId, tg[i][1], tg[i][2]>>,
               centre |-> <<month, year>>, pc |-> "bill", bill |-> {},
               failed |-> FALSE, data |-> {}]}
        ELSE {}
  IN [cache |-> c2.cache,
      pl |-> [P EXCEPT !.n = @ + 1,
                       !.loads = @ \cup load(1, c1.loads) \cup load(2, c2.loads)]]

\* preload is called.
PreloadBegin(renterId, month, year) ==
  /\ pl.n < MaxPreloads
  /\ LET r == preload(cache, now, pl, renterId, month, year)
     IN /\ cache' = r.cache
        /\ pl' = r.pl
  /\ UNCHANGED <<db, last, nsaves, rq, now, fc, net>>

\* await SupabaseService.getMonthlyBill(renterId, month, year) of a load.
LoadBill(l, failed) ==
  /\ l \in LoadsAt("bill")
  /\ LET existingBill == Caught(failed, getMonthlyBill(db, ReadUser, l.key[1], l.key[2], l.key[3]))
     IN pl' = [pl EXCEPT !.loads = (@ \ {l}) \cup
                 {[l EXCEPT !.pc = IF existingBill # {} THEN "children" ELSE "previous",
                            !.bill = existingBill,
                            !.failed = failed]}]
  /\ UNCHANGED <<db, last, nsaves, rq, cache, now, fc, net>>

\* The existing-bill branch: both child reads, then this.set.
LoadChildren(l, failedExpenses, failedPayments) ==
  /\ l \in LoadsAt("children")
  /\ LET existingBill == CHOOSE b \in l.bill : TRUE
         expenses     == Caught(failedExpenses,
                                getAdditionalExpenses(db, ReadUser, existingBill.id))
         billPayments == Caught(failedPayments,
                                getBillPayments(db, ReadUser, existingBill.id))
     IN /\ cache' = set(cache, now, l.key[1], l.key[2], l.key[3],
                        LoadedMonthData(existingBill, expenses, billPayments))
        /\ pl' = [pl EXCEPT !.loads = @ \ {l},
                            !.done = [id |-> l.id, key |-> l.key, centre |-> l.centre,
                                      failed |-> failedExpenses \/ failedPayments]]
  /\ UNCHANGED <<db, last, nsaves, rq, now, fc, net>>

\* The no-bill branch: the read of the previous bill, then this.set.
LoadPrevious(l, failed) ==
  /\ l \in LoadsAt("previous")
  /\ LET previousBill == Caught(failed, getPreviousMonthBill(db, ReadUser, l.key[1],
                                                             l.key[2], l.key[3]))
     IN /\ cache' = set(cache, now, l.key[1], l.key[2], l.key[3],
                        FreshMonthData(monthlyRent, previousBill))
        /\ pl' = [pl EXCEPT !.loads = @ \ {l},
                            !.done = [id |-> l.id, key |-> l.key, centre |-> l.centre,
                                      failed |-> l.failed \/ failed]]
  /\ UNCHANGED <<db, last, nsaves, rq, now, fc, net>>

\* getBillWithDetails by the signed-in user, the reads in `failing` failing.
FetchUnder(renterId, month, year, path, failing) ==
  /\ last = NoCall
  /\ LET r == getBillWithDetailsUnder(db, ReadUser, renterId, month, year, path, failing)
     IN last' = [op |-> "fetch", user |-> ReadUser, renterId |-> renterId,
                 month |-> month, year |-> year, path |-> path,
                 ok |-> r.ok, data |-> r.data, attempts |-> r.attempts,
                 fellBack |-> r.fellBack, failing |-> failing]
  /\ UNCHANGED <<db, nsaves, rq, cache, now, fc, pl, net>>

\* Date.now() moves on.
Elapse ==
  /\ \E t \in ReadTimes : t > now /\ now' = t
  /\ UNCHANGED <<db, last, nsaves, rq, cache, fc, pl, net>>

NextPreload ==
  \/ \E p \in Periods : PreloadBegin(1, p[1], p[2])
  \/ \E l \in LoadsAt("bill"), failed \in BOOLEAN : LoadBill(l, failed)
  \/ \E l \in LoadsAt("children"), failedExpenses, failedPayments \in BOOLEAN :
       LoadChildren(l, failedExpenses, failedPayments)
  \/ \E l \in LoadsAt("previous"), failed \in BOOLEAN : LoadPrevious(l, failed)
  \/ Elapse

SpecPreload == InitPreload /\ [][NextPreload]_vars

\* Stores the fetches run against: those of the preloads, and the store after
\* the signed-in user saved a bill for renter 2, who belongs to another user
\* (save_bill_complete checks the renter's existence only).
FetchStores ==
  ReadStores \cup
    {saveBillComplete(EmptyDb, ReadUser,
                      [ReadBill(1, 2025, 700, 300) EXCEPT !.renter_id = 2],
                      <<[id |-> NoId, description |-> "a"]>>, <<>>).db}

InitFetch ==
  /\ db \in FetchStores
  /\ last = NoCall
  /\ nsaves = 0
  /\ rq = NoRun
  /\ cache = NoCache
  /\ now = 0
  /\ fc = Idle(NoPrev)
  /\ pl = NoLoads
  /\ net = {}

NextFetch ==
  \/ /\ last = NoCall
     /\ \E renterId \in {1, 2}, p \in FetchPeriods, path \in FetchPaths,
           failing \in Failings :
          FetchUnder(renterId, p[1], p[2], path, failing)
  \/ TakeOutcome

SpecFetch == InitFetch /\ [][NextFetch]_vars

----------------------------------------------------------------------------
(* Properties of the store and the service (SpecStore) *)

\* The bill rows of the key the last save was for.
SavedBills == BillsAt(db, last.billData.renter_id, last.billData.month, last.billData.year)

\* The identity incoming child i ends up with: its own when assigned, else
\* entry i of the returned identity list.
ResultingId(children, ids, i) ==
  IF children[i].id # NoId THEN children[i].id
  ELSE IF i <= Len(ids) THEN ids[i] ELSE NoId

\* The expense rows the incoming list of the last save describes.
IncomingExpenseRows ==
  {[id |-> ResultingId(last.expenses, last.expense_ids, i),
    monthly_bill_id |-> last.bill_id,
    description |-> last.expenses[i].description] : i \in 1..Len(last.expenses)}

\* The payment rows the incoming list of the last save describes.
IncomingPaymentRows ==
  {[id |-> ResultingId(last.payments, last.payment_ids, i),
    monthly_bill_id |-> last.bill_id,
    payment_type |-> last.payments[i].payment_type] : i \in 1..Len(last.payments)}

\* C1: after a successful save the expense rows and the payment rows attached
\* to billId are exactly the rows the incoming lists describe: one row per
\* incoming child, with its content, under its assigned or returned identity,
\* and no other row.
C1_ChildrenMatchIncoming ==
  (last.op = "save" /\ last.ok) =>
    /\ ChildrenOf(db.additional_expenses, last.bill_id) = IncomingExpenseRows
    /\ Cardinality(IncomingExpenseRows) = Len(last.expenses)
    /\ ChildrenOf(db.bill_payments, last.bill_id) = IncomingPaymentRows
    /\ Cardinality(IncomingPaymentRows) = Len(last.payments)

\* A statement of the save is bound to raise on this input: the renter does
\* not exist, a new expense has no description, a new payment has a type the
\* CHECK constraint rejects.
SomeStepRaises(call) ==
  \/ call.billData.renter_id \notin DOMAIN renters
  \/ \E i \in 1..Len(call.expenses) :
       call.expenses[i].id = NoId /\ call.expenses[i].description = NULL
  \/ \E i \in 1..Len(call.payments) :
       call.payments[i].id = NoId /\ call.payments[i].payment_type \notin {"cash", "online"}

\* C2: a save one of whose statements raises fails as a whole, and a save
\* that fails leaves the store exactly as it was before the call.
C2_FailedSaveLeavesStore ==
  [][ (last = NoCall /\ last'.op = "save") =>
        /\ SomeStepRaises(last') => ~last'.ok
        /\ ~last'.ok => db' = db ]_vars

\* C2 witness: a save failed at the payments, after the bill upsert and an
\* expense insert had run, and was retried; the store shows neither.
C2_Witness ==
  /\ last.op = "save"
  /\ ~last.ok
  /\ last.step = "payments"
  /\ last.attempts = maxRetries + 1
  /\ SavedBills = {}
  /\ \E i \in 1..Len(last.expenses) : last.expenses[i].id = NoId

\* Number of children of a list with a given content.
CountWhere(children, field, x) ==
  Cardinality({i \in 1..Len(children) : children[i][field] = x})

\* C3: after a successful save, a fetch of the same key by the same user, on
\* any path, returns a present bill with the saved fields and exactly the
\* saved expenses and payments (as many, with the same contents).
C3_RoundTrip ==
  (last.op = "save" /\ last.ok) =>
    \A path \in FetchPaths :
      LET f == getBillWithDetails(db, last.user, last.billData.renter_id,
                                  last.billData.month, last.billData.year, path)
      IN /\ f.ok
         /\ \E b \in f.data.bill :
              /\ b.rent_amount = last.billData.rent_amount
              /\ b.electricity_final_reading = last.billData.electricity_final_reading
              /\ b.motor_final_reading = last.billData.motor_final_reading
         /\ Cardinality(f.data.expenses) = Len(last.expenses)
         /\ \A x \in Descriptions :
              Cardinality({r \in f.data.expenses : r.description = x})
                = CountWhere(last.expenses, "description", x)
         /\ Cardinality(f.data.payments) = Len(last.payments)
         /\ \A x \in PaymentTypes :
              Cardinality({r \in f.data.payments : r.payment_type = x})
                = CountWhere(last.payments, "payment_type", x)

\* C6: a fetch for a renter that does not exist or belongs to another user
\* fails; it does not answer with an aggregate.
C6_UnknownTenantFails ==
  ( /\ last.op = "fetch"
    /\ last.user # NoUser
    /\ ~(last.renterId \in DOMAIN renters /\ renters[last.renterId] = last.user) )
  => ~last.ok

----------------------------------------------------------------------------
(* Properties of the retry wrapper (SpecRetry) *)

RetryRunning == rq.pc # "idle"

\* How attempt i of the run settled under queryWithTimeout.
Settled(i) == queryWithTimeout(rq.behaviours[i])

\* C8: a run whose first two attempts fail and whose third succeeds returns
\* the third attempt's result, having waited at least baseDelay before the
\* second attempt and at least 2 * baseDelay before the third.
C8_ThirdAttemptSucceeds ==
  (RetryRunning /\ rq.pc = "returned" /\ Len(rq.starts) = 3) =>
    /\ rq.result = rq.behaviours[3].v
    /\ rq.starts[2] - rq.ends[1] >= baseDelay
    /\ rq.starts[3] - rq.ends[2] >= 2 * baseDelay

C8_Witness ==
  /\ RetryRunning
  /\ rq.pc = "returned"
  /\ Len(rq.starts) = 3
  /\ rq.behaviours[1].kind = "rejects"
  /\ rq.behaviours[2].kind = "never"

\* C9: the operation is never invoked more than maxRetries + 1 times; when
\* the last of them fails the run throws at once (no wait after that failure,
\* maxRetries waits in all), and the error names the operation and carries
\* the cause of that last attempt.
C9_ExhaustedRetries ==
  RetryRunning =>
    /\ Len(rq.starts) <= maxRetries + 1
    /\ (Len(rq.ends) = maxRetries + 1 /\ Settled(maxRetries + 1).kind = "rejects")
         => rq.pc = "thrown"
    /\ rq.pc = "thrown" =>
         /\ Len(rq.starts) = maxRetries + 1
         /\ Len(rq.waits) = maxRetries
         /\ rq.t = rq.ends[Len(rq.ends)]
         /\ rq.error.context = rq.context
         /\ rq.error.cause = Settled(Len(rq.behaviours)).v

C9_Witness ==
  /\ RetryRunning
  /\ rq.pc = "thrown"
  /\ rq.behaviours[1].v = "e1"
  /\ rq.behaviours[2].v = "e1"
  /\ rq.behaviours[3].v = "e2"

\* C10: no attempt lasts longer than timeoutMs; an attempt that has not
\* settled by then counts as failed with the timeout cause, so an operation
\* that never settles is attempted maxRetries + 1 times and the run throws
\* the timeout cause.
NeverSettles == \A i \in 1..Len(rq.behaviours) : rq.behaviours[i].kind = "never"

C10_AttemptsTimeOut ==
  RetryRunning =>
    /\ \A i \in 1..Len(rq.ends) : rq.ends[i] - rq.starts[i] <= timeoutMs
    /\ \A i \in 1..Len(rq.ends) :
         (rq.behaviours[i].kind = "never" \/ rq.behaviours[i].ms > timeoutMs)
           => (i < Len(rq.ends) \/ rq.pc # "returned")
    /\ (NeverSettles /\ Len(rq.ends) = maxRetries + 1) =>
         /\ rq.pc = "thrown"
         /\ rq.error.cause = TimeoutCause

C10_Witness ==
  /\ RetryRunning
  /\ rq.pc = "thrown"
  /\ NeverSettles
  /\ Len(rq.starts) = maxRetries + 1

----------------------------------------------------------------------------
(* Properties of the facade and the cache (SpecFacade) *)

FacadeReturned(op) == fc.op = op /\ fc.pc = "returned"

\* Whether the cache holds an entry for a (renterId, month, year) key.
Cached(key) == getCacheKey(key[1], key[2], key[3]) \in DOMAIN cache

IdsReconciled(cached, incoming, ids) ==
  /\ Len(cached) = Len(incoming)
  /\ \A i \in 1..Len(incoming) :
       /\ cached[i].id # NoId
       /\ incoming[i].id # NoId => cached[i] = incoming[i]
       /\ incoming[i].id = NoId =>
            /\ i <= Len(ids)
            /\ cached[i] = [incoming[i] EXCEPT !.id = ids[i]]

\* C5: after a successful save the cache entry of its key holds the saved
\* aggregate with the store's identities: the bill fields as saved, and each
\* child that was unassigned carrying the identity returned for its position,
\* which is the identity of the row the store inserted for it.
C5_CacheHoldsAssignedIds ==
  (FacadeReturned("save") /\ fc.ok) =>
    /\ Cached(fc.key)
    /\ LET d == cache[getCacheKey(fc.key[1], fc.key[2], fc.key[3])].data
       IN /\ d.rentAmount = fc.A.rentAmount
          /\ d.electricityFinal = fc.A.electricityFinal
          /\ d.motorFinal = fc.A.motorFinal
          /\ IdsReconciled(d.additionalExpenses, fc.A.additionalExpenses, fc.expense_ids)
          /\ IdsReconciled(d.payments, fc.A.payments, fc.payment_ids)
          /\ \A i \in 1..Len(fc.A.additionalExpenses) :
               fc.A.additionalExpenses[i].id = NoId =>
                 [id |-> d.additionalExpenses[i].id, monthly_bill_id |-> fc.bill_id,
                  description |-> d.additionalExpenses[i].description]
                   \in db.additional_expenses
          /\ \A i \in 1..Len(fc.A.payments) :
               fc.A.payments[i].id = NoId =>
                 [id |-> d.payments[i].id, monthly_bill_id |-> fc.bill_id,
                  payment_type |-> d.payments[i].payment_type]
                   \in db.bill_payments

\* C5 witness: a successful save of an edited child followed by a new one,
\* and of a new payment.
C5_Witness ==
  /\ FacadeReturned("save")
  /\ fc.ok
  /\ Len(fc.A.additionalExpenses) = 2
  /\ fc.A.additionalExpenses[1].id # NoId
  /\ fc.A.additionalExpenses[2].id = NoId
  /\ Len(fc.A.payments) = 1
  /\ fc.A.payments[1].id = NoId

\* C7: a display whose fetch fails (no signed-in user, or the store does not
\* answer any attempt in time) returns an error, and from the call to its
\* return the cache is left as it was: the miss and the failed fetch create,
\* replace and remove no entry, of this key or of any other.
C7_FailedDisplayKeepsCache ==
  [][ (fc' # fc /\ fc'.op = "display") =>
        /\ fc'.pc = "fetching" => cache' = cache
        /\ (fc'.pc = "returned" /\ fc'.fetched /\ (fc'.user = NoUser \/ ~fc'.answers))
             => ~fc'.ok
        /\ (fc'.pc = "returned" /\ ~fc'.ok) => cache' = cache ]_vars

\* C7 witness: a display failed on a timeout while the cache held another
\* key's entry.
C7_Witness ==
  /\ FacadeReturned("display")
  /\ ~fc.ok
  /\ fc.user # NoUser
  /\ ~fc.answers
  /\ ~Cached(fc.key)
  /\ DOMAIN cache # {}

----------------------------------------------------------------------------
(* Further properties of the store and the service (SpecStore) *)

\* A save starts: the step from the idle caller to the completed save.
SaveStep == last = NoCall /\ last'.op = "save"

\* Every child of the list carries an identity, and the store d holds a row
\* with that identity attached to the bill of the call's key.
AllHeld(d, billData, rows, children) ==
  \A i \in 1..Len(children) :
    /\ children[i].id # NoId
    /\ \E b \in BillsAt(d, billData.renter_id, billData.month, billData.year) :
         \E r \in rows : r.id = children[i].id /\ r.monthly_bill_id = b.id

IdsInInputOrder(ids, children, next, rowsAfter, bill_id, field) ==
  /\ Len(ids) = Len(children)
  /\ \A i \in 1..Len(children) :
       /\ children[i].id # NoId => ids[i] = children[i].id
       /\ children[i].id = NoId =>
            /\ ids[i] >= next
            /\ \E r \in rowsAfter :
                 /\ r.id = ids[i]
                 /\ r.monthly_bill_id = bill_id
                 /\ r[field] = children[i][field]
            /\ \A j \in 1..Len(children) : (j # i) => ids[j] # ids[i]

\* C12: the identity lists of a successful save have one entry per incoming
\* child, in input order: the assigned identity of child i, or the fresh
\* identity of the row inserted for it.
C12_IdsInInputOrder ==
  [][ (SaveStep /\ last'.ok) =>
        /\ IdsInInputOrder(last'.expense_ids, last'.expenses, db.next_expense,
                           db'.additional_expenses, last'.bill_id, "description")
        /\ IdsInInputOrder(last'.payment_ids, last'.payments, db.next_payment,
                           db'.bill_payments, last'.bill_id, "payment_type") ]_vars

\* C12 witness: a successful save of a held expense followed by a new one.
C12_Witness ==
  /\ last.op = "save"
  /\ last.ok
  /\ Len(last.expenses) = 2
  /\ last.expenses[1].id # NoId
  /\ last.expenses[2].id = NoId
  /\ last.expenses[1].description # last.expenses[2].description
  /\ \E r \in db.additional_expenses :
       r.id = last.expenses[1].id /\ r.monthly_bill_id = last.bill_id

\* C13: the store never holds two bill rows for one (renter, month, year); a
\* successful save leaves exactly one row for its key, with the saved fields
\* and the returned billId: the row that was there before, or a new one.
C13_OneBillPerKey ==
  [][ SaveStep =>
        /\ \A b1, b2 \in db'.monthly_bills :
             (b1.renter_id = b2.renter_id /\ b1.month = b2.month /\ b1.year = b2.year)
               => b1 = b2
        /\ last'.ok =>
             LET before == BillsAt(db, last'.billData.renter_id, last'.billData.month,
                                   last'.billData.year)
                 after  == BillsAt(db', last'.billData.renter_id, last'.billData.month,
                                   last'.billData.year)
             IN /\ Cardinality(after) = 1
                /\ \A b \in after :
                     /\ b.id = last'.bill_id
                     /\ b.rent_amount = last'.billData.rent_amount
                     /\ b.electricity_final_reading = last'.billData.electricity_final_reading
                     /\ b.motor_final_reading = last'.billData.motor_final_reading
                     /\ \A x \in before : x.id = b.id
                     /\ before = {} => b.id \notin {x.id : x \in db.monthly_bills} ]_vars

\* C13 witness: the second successful save of a key, with other readings.
C13_Witness ==
  /\ last.op = "save"
  /\ last.ok
  /\ nsaves = 2
  /\ db.next_bill = 2
  /\ last.billData.electricity_final_reading = 600
  /\ last.bill_id = 1

\* The period immediately preceding (m, y).
PrecedingPeriod(m, y) == IF m = 1 THEN <<12, y - 1>> ELSE <<m - 1, y>>

\* The final readings of the user's bill for the period preceding (m, y), zero
\* for both meters when the store holds no such bill.
CarriedReadings(d, user, renterId, m, y) ==
  LET pp   == PrecedingPeriod(m, y)
      rows == {b \in BillsAt(d, renterId, pp[1], pp[2]) : b.user_id = user}
  IN IF rows = {} THEN [electricity_final |-> 0, motor_final |-> 0]
     ELSE LET b == CHOOSE x \in rows : TRUE
          IN [electricity_final |-> b.electricity_final_reading,
              motor_final |-> b.motor_final_reading]

\* The last call was a fetch by a signed-in user for a renter of theirs.
FetchOfOwnRenter ==
  /\ last.op = "fetch"
  /\ last.user # NoUser
  /\ last.renterId \in DOMAIN renters
  /\ renters[last.renterId] = last.user

\* C14: a fetch returns as previous_readings the final readings of the bill
\* of the preceding period, (12, y - 1) for January and (m - 1, y) otherwise,
\* whichever get_bill_with_details answers and also when the service falls
\* back to the parallel queries.
C14_CarryForward ==
  (FetchOfOwnRenter /\ last.ok) =>
    last.data.previous_readings
      = CarriedReadings(db, last.user, last.renterId, last.month, last.year)

\* C14 witness: a January fetch answered by the parallel queries carries the
\* December readings forward.
C14_Witness ==
  /\ FetchOfOwnRenter
  /\ last.ok
  /\ last.fellBack
  /\ last.month = 1
  /\ last.data.previous_readings = [electricity_final |-> 600, motor_final |-> 250]

\* C15: a fetch for a key with no bill row, by the renter's user, succeeds
\* with bill absent, no expenses, no payments, and the preceding period's
\* final readings (zero when that period has no bill either).
C15_NoBillYet ==
  ( /\ FetchOfOwnRenter
    /\ BillsAt(db, last.renterId, last.month, last.year) = {} )
  => /\ last.ok
     /\ last.data.bill = {}
     /\ last.data.expenses = {}
     /\ last.data.payments = {}
     /\ last.data.previous_readings
          = CarriedReadings(db, last.user, last.renterId, last.month, last.year)

\* C15 witness: February has no bill, January has one with readings; the
\* combined read of simple-schema.sql was asked.
C15_Witness ==
  /\ FetchOfOwnRenter
  /\ last.month = 2
  /\ last.path = "simple"
  /\ BillsAt(db, last.renterId, 2, 2025) = {}
  /\ last.data.bill = {}
  /\ last.data.previous_readings.electricity_final = 600

----------------------------------------------------------------------------
(* Further properties of the facade and the cache (SpecFacade) *)

\* The cache entry of a (renterId, month, year) key.
EntryOf(c, key) == c[getCacheKey(key[1], key[2], key[3])]

\* Keys probed: those the calls use, and keys no call ever writes.
ProbeKeys == {<<1, p[1], p[2]>> : p \in Periods} \cup {<<999, 12, 2025>>}

\* C16: a display of a cached key returns the cached data at once and reads
\* nothing from the store; a display of a key not cached goes to the Aggregate
\* Fetcher and, when that succeeds, stores the fetched aggregate under the key
\* and returns it.
C16_DisplayHitAndMiss ==
  [][ /\ (fc.op = "none" /\ fc'.op = "display") =>
           IF Cached(fc'.key)
           THEN /\ fc'.pc = "returned"
                /\ fc'.ok
                /\ ~fc'.fetched
                /\ fc'.data = {EntryOf(cache, fc'.key).data}
                /\ db' = db
           ELSE /\ fc'.pc = "fetching"
                /\ cache' = cache
      /\ (fc.op = "display" /\ fc'.op = "display" /\ fc' # fc /\ fc'.ok) =>
           /\ fc'.fetched
           /\ fc'.data = {ToMonthData(getBillWithDetails(db, fc'.user, fc'.key[1],
                                        fc'.key[2], fc'.key[3], fc'.path).data)}
           /\ getCacheKey(fc'.key[1], fc'.key[2], fc'.key[3]) \in DOMAIN cache'
           /\ fc'.data = {EntryOf(cache', fc'.key).data} ]_vars

\* C16 witness: a display served from the cache right after the display that
\* fetched the same key.
C16_Witness ==
  /\ FacadeReturned("display")
  /\ fc.ok
  /\ ~fc.fetched
  /\ fc.prev.op = "display"
  /\ fc.prev.ok
  /\ fc.prev.key = fc.key
  /\ BillsAt(db, fc.key[1], fc.key[2], fc.key[3]) # {}

\* C17: get on a cached key returns the entry's data however old the entry
\* is, keeps the entry with its data and timestamp, touches no other entry,
\* and marks the entry stale exactly when it is older than CACHE_TTL, when
\* isStale is true as well.
C17_StaleIsNotEvicted ==
  \A key \in ProbeKeys :
    Cached(key) =>
      LET e == EntryOf(cache, key)
          g == get(cache, now, key[1], key[2], key[3])
      IN /\ g.data = {e.data}
         /\ DOMAIN g.cache = DOMAIN cache
         /\ EntryOf(g.cache, key).data = e.data
         /\ EntryOf(g.cache, key).timestamp = e.timestamp
         /\ \A k \in DOMAIN cache :
              k # getCacheKey(key[1], key[2], key[3]) => g.cache[k] = cache[k]
         /\ IF now - e.timestamp > CACHE_TTL
            THEN /\ isStale(cache, now, key[1], key[2], key[3])
                 /\ EntryOf(g.cache, key).isStale
            ELSE /\ ~isStale(cache, now, key[1], key[2], key[3])
                 /\ EntryOf(g.cache, key).isStale = e.isStale

\* C17 witness: a display was served from an entry older than CACHE_TTL,
\* which is still cached, marked stale.
C17_Witness ==
  /\ FacadeReturned("display")
  /\ ~fc.fetched
  /\ Cached(fc.key)
  /\ EntryOf(cache, fc.key).isStale
  /\ now - EntryOf(cache, fc.key).timestamp > CACHE_TTL
  /\ fc.data = {EntryOf(cache, fc.key).data}

\* Data a probe writes: whatever the cache holds, and a fresh month.
ProbeData ==
  {cache[k].data : k \in DOMAIN cache}
    \cup {ToMonthData(NoBillResult(ZeroReadings))}

\* A set of any probed key and data on the cache, then get: the data written,
\* not stale.
SetThenGet ==
  \A key \in ProbeKeys : \A A \in ProbeData :
    LET c2 == set(cache, now, key[1], key[2], key[3], A)
    IN /\ get(c2, now, key[1], key[2], key[3]) = [cache |-> c2, data |-> {A}]
       /\ ~isStale(c2, now, key[1], key[2], key[3])

\* C18: get right after set(K, A) returns A and the entry is not stale,
\* whatever the cache held for K before: for a set of any probed key and data
\* on every reachable cache, and for the optimistic write of every save.
C18_GetAfterSet ==
  /\ []SetThenGet
  /\ [][ (fc.op = "none" /\ fc'.op = "save") =>
           /\ get(cache', now', fc'.key[1], fc'.key[2], fc'.key[3])
                = [cache |-> cache', data |-> {fc'.A}]
           /\ ~isStale(cache', now', fc'.key[1], fc'.key[2], fc'.key[3]) ]_vars

\* C18 witness: a save wrote its optimistic aggregate over an entry written
\* more than CACHE_TTL earlier by a display of the same key.
C18_Witness ==
  /\ fc.op = "save"
  /\ fc.pc = "saving"
  /\ fc.prev.op = "display"
  /\ fc.prev.ok
  /\ fc.prev.key = fc.key
  /\ now > CACHE_TTL
  /\ Cached(fc.key)
  /\ EntryOf(cache, fc.key).timestamp = now
  /\ EntryOf(cache, fc.key).data = fc.A

\* The step writes the cache entry of key: the optimistic write of a save, or
\* the write of a display's fetched aggregate.
SetsKey(key) ==
  \/ fc.op = "none" /\ fc'.op = "save" /\ fc'.key = key
  \/ fc.op = "display" /\ fc'.op = "display" /\ fc' # fc /\ fc'.ok /\ fc'.key = key
  \/ fc.op = "save" /\ fc'.op = "save" /\ fc' # fc /\ fc'.ok /\ fc'.key = key

\* invalidate of any probed key on the cache, then get: absent.
InvalidateThenGet ==
  \A key \in ProbeKeys :
    LET c2 == invalidate(cache, key[1], key[2], key[3])
    IN get(c2, now, key[1], key[2], key[3]) = [cache |-> c2, data |-> {}]

\* C19: get after invalidate(K) returns absent, cached before or not, and a
\* key that is absent stays absent until a step sets it; a failed save leaves
\* its key absent.
C19_AbsentAfterInvalidate ==
  /\ []InvalidateThenGet
  /\ [][ /\ \A key \in ProbeKeys :
              (~Cached(key) /\ getCacheKey(key[1], key[2], key[3]) \in DOMAIN cache')
                => SetsKey(key)
         /\ (fc.op = "save" /\ fc'.op = "save" /\ fc' # fc /\ ~fc'.ok) =>
              get(cache', now', fc'.key[1], fc'.key[2], fc'.key[3]).data = {} ]_vars

\* C19 witness: a save failed for want of a signed-in user; its key is absent
\* while another key is still cached.
C19_Witness ==
  /\ FacadeReturned("save")
  /\ ~fc.ok
  /\ fc.user = NoUser
  /\ ~Cached(fc.key)
  /\ DOMAIN cache # {}

\* C20: get on a key the cache does not hold, never written or gone with
\* clear, returns absent and leaves the cache as it is; after clear the cache
\* holds no entry at all.
C20_AbsentKey ==
  \A key \in ProbeKeys :
    /\ ~Cached(key) =>
         /\ get(cache, now, key[1], key[2], key[3]) = [cache |-> cache, data |-> {}]
         /\ ~isStale(cache, now, key[1], key[2], key[3])
    /\ DOMAIN clear(cache) = {}
    /\ get(clear(cache), now, key[1], key[2], key[3]) = [cache |-> clear(cache), data |-> {}]

\* C20 witness: the cache was cleared after a display had cached a key.
C20_Witness ==
  /\ fc.op = "none"
  /\ fc.prev.op = "display"
  /\ fc.prev.ok
  /\ DOMAIN cache = {}
  /\ db.monthly_bills # {}

----------------------------------------------------------------------------
(* Properties of the cache key and the preloader (SpecPreload) *)

\* Triples whose digits run into one another once the separators are gone.
KeyTriples == {<<r, m, y>> : r \in {1, 12, 999}, m \in {1, 2, 11, 12}, y \in {2024, 2025, 22025}}

\* Two triples have the same key exactly when they are the same triple.
KeysCollisionFree ==
  \A a, b \in KeyTriples :
    (getCacheKey(a[1], a[2], a[3]) = getCacheKey(b[1], b[2], b[3])) <=> (a = b)

\* The keys the preloads of SpecPreload touch, and one that nothing writes.
PreloadKeys ==
  {<<1, 11, 2024>>, <<1, 12, 2024>>, <<1, 1, 2025>>, <<1, 2, 2025>>, <<999, 12, 2025>>}

\* C21: getCacheKey gives two triples the same key exactly when they are
\* equal, and a write under one triple leaves what the cache holds under
\* every other triple as it was.
C21_KeysCollisionFree ==
  /\ KeysCollisionFree
  /\ \A a, b \in PreloadKeys :
       a # b =>
         LET c2 == set(cache, now, a[1], a[2], a[3], FreshMonthData(monthlyRent, {}))
         IN /\ get(c2, now, b[1], b[2], b[3]).data = get(cache, now, b[1], b[2], b[3]).data
            /\ get(c2, now, a[1], a[2], a[3]).data = {FreshMonthData(monthlyRent, {})}

\* C21 witness: the cache holds December 2024 and February 2025 of the same
\* renter under two keys, each with its own data.
C21_Witness ==
  /\ Cached(<<1, 12, 2024>>)
  /\ Cached(<<1, 2, 2025>>)
  /\ EntryOf(cache, <<1, 12, 2024>>).data.electricityFinal = 600
  /\ EntryOf(cache, <<1, 2, 2025>>).data.electricityFinal = 700

\* The period before and the period after (m, y).
PrevOf(m, y) == IF m = 1 THEN <<12, y - 1>> ELSE <<m - 1, y>>
NextOf(m, y) == IF m = 12 THEN <<1, y + 1>> ELSE <<m + 1, y>>

\* For every month of a year, preload's targets are the period before and the
\* period after, with months in 1..12, and neither is the month itself.
TargetsRollOver ==
  \A m \in 1..12 : \A y \in {2024, 2025} :
    LET tg == PreloadTargets(m, y)
    IN /\ tg = <<PrevOf(m, y), NextOf(m, y)>>
       /\ \A i \in 1..2 : tg[i][1] \in 1..12 /\ tg[i] # <<m, y>>

\* The key of a load is one of the two targets of the preload that started it.
OnTarget(l) ==
  /\ l.key[1] = 1
  /\ <<l.key[2], l.key[3]>> \in {PrevOf(l.centre[1], l.centre[2]), NextOf(l.centre[1], l.centre[2])}
  /\ <<l.key[2], l.key[3]>> # l.centre
  /\ l.key[2] \in 1..12

\* The step is the completion of a load: the load completed last changes.
LoadCompletes == pl'.done # pl.done

\* The entry of k is written or removed by the step.
Touched(k) ==
  IF k \in DOMAIN cache /\ k \in DOMAIN cache'
  THEN cache'[k].data # cache[k].data \/ cache'[k].timestamp # cache[k].timestamp
  ELSE k \in DOMAIN cache \/ k \in DOMAIN cache'

\* C22: preload(t, m, y) targets the keys of the period before and the period
\* after (m, y), rolling over at January and December; every load it starts
\* and every cache entry it writes is for one of those two keys, with a month
\* in 1..12, and never for (t, m, y).
C22_PreloadTargets ==
  /\ []TargetsRollOver
  /\ [](\A l \in pl.loads : OnTarget(l))
  /\ [][ \A k \in DOMAIN cache \cup DOMAIN cache' :
           Touched(k) =>
             /\ LoadCompletes
             /\ k = getCacheKey(pl'.done.key[1], pl'.done.key[2], pl'.done.key[3])
             /\ OnTarget(pl'.done) ]_vars

\* C22 witness: a preload around January 2025 loaded December 2024, a preload
\* around December 2024 loaded January 2025: both rollovers.
C22_Witness ==
  /\ pl.done.id # 0
  /\ pl.done.centre = <<1, 2025>>
  /\ pl.done.key = <<1, 12, 2024>>
  /\ Cached(<<1, 12, 2024>>)
  /\ Cached(<<1, 1, 2025>>)

\* The loads the step starts.
NewLoads == pl'.loads \ pl.loads

\* C23: a preload starts a load for an adjacent key exactly when the key is
\* not cached at the check; for a key that is cached, fresh or stale, it starts
\* no load, so it reads nothing from the store for it, and the check writes no
\* entry; the store is read only by loads so started.
C23_LoadOnlyIfNotCached ==
  [][ /\ (pl'.n # pl.n) =>
           /\ \E p \in Periods :
                LET tg == PreloadTargets(p[1], p[2])
                IN \A i \in 1..2 :
                     LET k == <<1, tg[i][1], tg[i][2]>>
                     IN IF Cached(k)
                        THEN \A l \in NewLoads : l.key # k
                        ELSE \E l \in NewLoads : l.key = k /\ l.pc = "bill"
           /\ \A l \in NewLoads : ~Cached(l.key)
           /\ \A k \in DOMAIN cache \cup DOMAIN cache' : ~Touched(k)
      /\ (pl'.n = pl.n) => NewLoads \subseteq {[l EXCEPT !.pc = pc, !.bill = b, !.failed = f] :
                                                l \in pl.loads, pc \in {"children", "previous"},
                                                b \in SUBSET db.monthly_bills, f \in BOOLEAN} ]_vars

\* C23 witness: a second preload found both adjacent keys cached and older
\* than CACHE_TTL; it marked them stale and started no load.
C23_Witness ==
  /\ pl.n = 2
  /\ pl.loads = {}
  /\ now > CACHE_TTL
  /\ Cardinality(DOMAIN cache) = 2
  /\ \A k \in DOMAIN cache : cache[k].isStale /\ cache[k].timestamp = 0

\* C24: an entry written 6 minutes earlier is stale, an entry just written
\* is not, and get returns the data of the entry either way.
C24_SixMinutesIsStale ==
  \A k \in PreloadKeys :
    Cached(k) =>
      LET e == EntryOf(cache, k)
      IN /\ (now - e.timestamp >= 6) => isStale(cache, now, k[1], k[2], k[3])
         /\ (now = e.timestamp) => ~isStale(cache, now, k[1], k[2], k[3])
         /\ get(cache, now, k[1], k[2], k[3]).data = {e.data}

\* C28: a load one of whose store reads failed writes no cache entry: the
\* entry of its key, present or absent, is as it was before.
C28_FailedLoadNotCached ==
  [][ (LoadCompletes /\ pl'.done.failed) =>
        LET k == getCacheKey(pl'.done.key[1], pl'.done.key[2], pl'.done.key[3])
        IN IF k \in DOMAIN cache
           THEN k \in DOMAIN cache' /\ cache'[k] = cache[k]
           ELSE k \notin DOMAIN cache' ]_vars

----------------------------------------------------------------------------
(* Properties of the fetch over failing reads (SpecFetch) *)

\* A read the fetch issued on the decomposed path failed: the bill and the
\* previous bill are always read, the children only once a bill was found.
IssuedReadFailed ==
  /\ last.op = "fetch"
  /\ last.fellBack
  /\ \/ "bill" \in last.failing
     \/ "previous" \in last.failing
     \/ last.data.bill # {} /\ last.failing # {}

\* C25: a fetch whose decomposed path had a read fail does not succeed.
C25_FailedReadFailsFetch == IssuedReadFailed => ~last.ok

\* C26: whenever get_bill_with_details answers, in any of its versions, the
\* parallel queries give the same aggregate on the same store for the same
\* user and key: the same bill, expenses, payments and previous_readings.
C26_FallbackEqualsCombined ==
  \A user \in Users, renterId \in FetchRenters, p \in FetchPeriods, path \in RpcPaths :
    LET rpc == get_bill_with_details(path, db, renterId, p[1], p[2], user)
    IN ~rpc.raised => rpc.result = FallbackQueries(db, user, renterId, p[1], p[2])

----------------------------------------------------------------------------
(* Properties of the combined read (SpecStore) *)

\* C27: when the user's bill row exists for the key, every version of the
\* combined read answers with that bill, all its expenses and all its
\* payments, and with zero previous_readings when the preceding period has no
\* bill.
C27_CombinedReadReturnsBill ==
  \A p \in FetchPeriods, path \in RpcPaths :
    LET bd  == bill_data(db, 1, p[1], p[2], "u1")
        rpc == get_bill_with_details(path, db, 1, p[1], p[2], "u1")
    IN bd # {} =>
         /\ ~rpc.raised
         /\ rpc.result.bill = {BillJson(b) : b \in bd}
         /\ rpc.result.expenses
              = {ExpenseJson(r) : r \in {x \in db.additional_expenses :
                                           \E b \in bd : x.monthly_bill_id = b.id}}
         /\ rpc.result.payments
              = {PaymentJson(r) : r \in {x \in db.bill_payments :
                                           \E b \in bd : x.monthly_bill_id = b.id}}
         /\ rpc.result.previous_readings = CarriedReadings(db, "u1", 1, p[1], p[2])

----------------------------------------------------------------------------
(* Ordering within a save (SpecFacade) *)

\* C29: within one save the optimistic aggregate is in the cache under the
\* key before the reconciliation call acts on the store, and stays there
\* until the call has settled; the identity-reconciled aggregate is written
\* only in the step in which the call returned success, and a save whose call
\* failed writes no reconciled entry: its key is left uncached.
C29_SaveOrdering ==
  /\ []((fc.op = "save" /\ fc.pc = "saving") =>
          /\ Cached(fc.key)
          /\ EntryOf(cache, fc.key).data = fc.A)
  /\ [][ /\ (fc.op = "none" /\ fc'.op = "save") => (fc'.pc = "saving" /\ db' = db)
         /\ (db' # db) => (fc.op = "save" /\ fc.pc = "saving" /\ fc'.pc = "returned")
         /\ (fc.op = "save" /\ fc'.op = "save" /\ fc' # fc) =>
              IF fc'.ok
              THEN /\ getCacheKey(fc.key[1], fc.key[2], fc.key[3]) \in DOMAIN cache'
                   /\ EntryOf(cache', fc.key).data
                        = Reconciled(fc.A, fc'.expense_ids, fc'.payment_ids)
                   /\ db' = saveBillComplete(db, fc'.user,
                                             ToBillData(fc.key[1], fc.key[2], fc.key[3], fc.A),
                                             fc.A.additionalExpenses, fc.A.payments).db
              ELSE getCacheKey(fc.key[1], fc.key[2], fc.key[3]) \notin DOMAIN cache' ]_vars

\* C29 witness: a save of an aggregate with a new expense returned success;
\* the cache holds the reconciled aggregate, which differs from the optimistic
\* one by the assigned identity.
C29_Witness ==
  /\ FacadeReturned("save")
  /\ fc.ok
  /\ Len(fc.A.additionalExpenses) = 1
  /\ fc.A.additionalExpenses[1].id = NoId
  /\ Cached(fc.key)
  /\ EntryOf(cache, fc.key).data # fc.A
  /\ EntryOf(cache, fc.key).data.additionalExpenses[1].id = fc.expense_ids[1]

----------------------------------------------------------------------------
(* Failures that are not transient (SpecStore) *)

\* The last call failed because the renter does not exist (the bill's upsert
\* raised), or because no user is signed in.
NotFoundOrDenied ==
  /\ last.op \in {"save", "fetch"}
  /\ ~last.ok
  /\ IF last.op = "save" THEN last.step \in {"bill", "auth"} ELSE last.user = NoUser

\* C30: a call that fails with a NotFound/AccessDenied failure made one
\* attempt only.
C30_NotFoundNotRetried == NotFoundOrDenied => last.attempts = 1

----------------------------------------------------------------------------
(* Identities and frame of a save (SpecStore) *)

\* C36: every identity a successful save returns in expense_ids or
\* payment_ids is the id of a row attached to bill_id after the save.
C36_ReturnedIdsAttached ==
  (last.op = "save" /\ last.ok) =>
    /\ \A i \in 1..Len(last.expense_ids) :
         \E r \in ChildrenOf(db.additional_expenses, last.bill_id) : r.id = last.expense_ids[i]
    /\ \A i \in 1..Len(last.payment_ids) :
         \E r \in ChildrenOf(db.bill_payments, last.bill_id) : r.id = last.payment_ids[i]

\* The bills of the store other than those of the key of billData, and the
\* children attached to them.
OtherBills(d, billData) ==
  d.monthly_bills \ BillsAt(d, billData.renter_id, billData.month, billData.year)
OtherChildren(d, rows, billData) ==
  {r \in rows : \E b \in OtherBills(d, billData) : r.monthly_bill_id = b.id}

\* The store without the rows of the other keys.
OnlyKey(d, billData) ==
  [d EXCEPT !.monthly_bills = @ \ OtherBills(d, billData),
            !.additional_expenses = @ \ OtherChildren(d, d.additional_expenses, billData),
            !.bill_payments = @ \ OtherChildren(d, d.bill_payments, billData)]

----------------------------------------------------------------------------
(* SpecOwners: the saves of two users for each other's renters *)

\* Bills to save: for the renter of either user, in one period.
OwnerInputs ==
  {[renter_id |-> r, month |-> 1, year |-> 2025, rent_amount |-> f.rent_amount,
    electricity_final_reading |-> f.electricity_final_reading,
    motor_final_reading |-> f.motor_final_reading] : r \in DOMAIN renters, f \in BillFields}

NextOwners ==
  \/ /\ last = NoCall
     /\ nsaves < MaxSaves
     /\ \E user \in Users, billData \in OwnerInputs,
           expenses \in ExpenseLists(db), payments \in PaymentLists(db) :
          SaveCall(user, billData, expenses, payments)
  \/ TakeOutcome

SpecOwners == InitStore /\ [][NextOwners]_vars

\* The bill rows of the store that belong to a user other than u, and the
\* children attached to them.
BillsOfOthers(d, u) == {b \in d.monthly_bills : b.user_id # u}
ChildrenOfOthers(d, rows, u) ==
  {r \in rows : \E b \in BillsOfOthers(d, u) : r.monthly_bill_id = b.id}

\* C38: a save of user U for a renter of another user fails, and no save of U
\* creates, changes or deletes a bill row or a child row of another user.
C38_SaveRespectsOwnership ==
  [][ SaveStep =>
        LET u == last'.user
        IN /\ (renters[last'.billData.renter_id] # u => ~last'.ok)
           /\ BillsOfOthers(db', u) = BillsOfOthers(db, u)
           /\ ChildrenOfOthers(db', db'.additional_expenses, u)
                = ChildrenOfOthers(db, db.additional_expenses, u)
           /\ ChildrenOfOthers(db', db'.bill_payments, u)
                = ChildrenOfOthers(db, db.bill_payments, u) ]_vars

----------------------------------------------------------------------------
(* No background expiry (SpecFacade) *)

\* The step removes the cache entry of key: the invalidate of a failed save
\* for it, or the clearing of the whole cache.
RemovesKey(key) ==
  \/ fc.op = "save" /\ fc'.op = "save" /\ fc' # fc /\ ~fc'.ok /\ fc'.key = key
  \/ fc.op = "none" /\ fc' = fc /\ cache' = NoCache

\* C39: while the entry of a key is cached, a display of the key returns the
\* entry's data without a fetch however old the entry is; the entry's data
\* and timestamp change only in a step that sets the key, the entry goes only
\* with an invalidate or a clear, and the passing of time changes nothing in
\* the cache.
C39_NoBackgroundExpiry ==
  [][ /\ \A key \in ProbeKeys :
           Cached(key) =>
             /\ (fc.op = "none" /\ fc'.op = "display" /\ fc'.key = key) =>
                  /\ fc'.pc = "returned"
                  /\ ~fc'.fetched
                  /\ fc'.data = {EntryOf(cache, key).data}
             /\ IF getCacheKey(key[1], key[2], key[3]) \in DOMAIN cache'
                THEN (\/ EntryOf(cache', key).data # EntryOf(cache, key).data
                      \/ EntryOf(cache', key).timestamp # EntryOf(cache, key).timestamp)
                       => SetsKey(key)
                ELSE RemovesKey(key)
      /\ now' # now => cache' = cache ]_vars

\* C39 witness: the second display in a row of a key whose entry is older
\* than CACHE_TTL was served from the entry, as the first was.
C39_Witness ==
  /\ FacadeReturned("display")
  /\ ~fc.fetched
  /\ fc.prev.op = "display"
  /\ fc.prev.key = fc.key
  /\ Cached(fc.key)
  /\ now - EntryOf(cache, fc.key).timestamp > CACHE_TTL
  /\ fc.data = {EntryOf(cache, fc.key).data}

----------------------------------------------------------------------------
(* Termination of the store operations (SpecRetryFair) *)

\* C32: every run of the wrapper around getBillWithDetails and
\* saveBillComplete eventually returns a result or throws an error, after at
\* most maxRetries + 1 attempts, also when the operation never settles or
\* fails every time.
C32_EveryCallReturns ==
  /\ [](RetryRunning => Len(rq.starts) <= maxRetries + 1)
  /\ RetryRunning ~> (rq.pc \in {"returned", "thrown"})

\* C32 witness: a run has thrown after an attempt that never settled, one that
\* resolved too late and one that rejected.
C32_Witness ==
  /\ RetryRunning
  /\ rq.pc = "thrown"
  /\ rq.behaviours[1].kind = "never"
  /\ rq.behaviours[2].kind = "resolves"
  /\ rq.behaviours[3].kind = "rejects"

----------------------------------------------------------------------------
(* SpecAbandon: saves whose attempts time out.  queryWithTimeout settles    *)
(* the attempt when the timer fires and leaves the request it raced         *)
(* against running; the store may still execute it, at any later time.      *)

\* The one key the saves are for, and the aggregates saved: a bill with at
\* most one new expense.
AbandonInputs ==
  [billData : {b \in BillInputs : b.renter_id = 1 /\ b.month = 1},
   expenses : {<<>>} \cup {<<[id |-> NoId, description |-> x]>> : x \in {"a", "b"}},
   payments : {<<>>}]

\* saveBillComplete is called: execute enters its loop.
AbandonBegin(A) ==
  /\ rq = NoRun
  /\ nsaves < MaxSaves
  /\ rq' = [pc |-> "attempt", attempt |-> 0, call |-> nsaves + 1, A |-> A]
  /\ last' = NoCall
  /\ nsaves' = nsaves + 1
  /\ UNCHANGED <<db, cache, now, fc, pl, net>>

\* The attempt's outcome when it fails: the next attempt, or the thrown
\* error after the last one.
AbandonAfterCatch ==
  IF LoopContinues(rq.attempt + 1)
  THEN /\ rq' = [rq EXCEPT !.attempt = @ + 1]
       /\ last' = last
  ELSE /\ rq' = NoRun
       /\ last' = [op |-> "save", user |-> ReadUser, billData |-> rq.A.billData,
                   expenses |-> rq.A.expenses, payments |-> rq.A.payments,
                   ok |-> FALSE, step |-> "timeout", bill_id |-> 0,
                   expense_ids |-> <<>>, payment_ids |-> <<>>,
                   attempts |-> rq.attempt + 1]

\* The store executes the attempt's request and answers within timeoutMs.
AttemptAnswered ==
  /\ rq # NoRun
  /\ LET r == save_bill_complete(db, rq.A.billData, rq.A.expenses, rq.A.payments, ReadUser)
     IN /\ db' = r.db
        /\ IF r.raised
           THEN AbandonAfterCatch
           ELSE /\ rq' = NoRun
                /\ last' = [op |-> "save", user |-> ReadUser, billData |-> rq.A.billData,
                            expenses |-> rq.A.expenses, payments |-> rq.A.payments,
                            ok |-> TRUE, step |-> "", bill_id |-> r.bill_id,
                            expense_ids |-> r.expense_ids, payment_ids |-> r.payment_ids,
                            attempts |-> rq.attempt + 1]
  /\ UNCHANGED <<nsaves, cache, now, fc, pl, net>>

\* The timer wins the race: the attempt fails with the timeout cause and its
\* request stays on its way.
AttemptTimesOut ==
  /\ rq # NoRun
  /\ net' = net \cup {[call |-> rq.call, attempt |-> rq.attempt, A |-> rq.A]}
  /\ AbandonAfterCatch
  /\ UNCHANGED <<db, nsaves, cache, now, fc, pl>>

\* The store executes the request of a timed-out attempt; nobody awaits its
\* answer.
ApplyAbandoned(q) ==
  /\ q \in net
  /\ db' = save_bill_complete(db, q.A.billData, q.A.expenses, q.A.payments, ReadUser).db
  /\ net' = net \ {q}
  /\ UNCHANGED <<last, nsaves, rq, cache, now, fc, pl>>

\* The request of a timed-out attempt never reaches the store.
LoseAbandoned(q) ==
  /\ q \in net
  /\ net' = net \ {q}
  /\ UNCHANGED <<db, last, nsaves, rq, cache, now, fc, pl>>

NextAbandon ==
  \/ \E A \in AbandonInputs : AbandonBegin(A)
  \/ AttemptAnswered
  \/ AttemptTimesOut
  \/ \E q \in net : ApplyAbandoned(q)
  \/ \E q \in net : LoseAbandoned(q)

SpecAbandon == InitStore /\ [][NextAbandon]_vars

\* The store holds for the key of the last save the bill with the saved
\* fields and exactly the children of its aggregate.
StoreHoldsLastSave ==
  /\ \E b \in SavedBills :
       /\ b.id = last.bill_id
       /\ b.rent_amount = last.billData.rent_amount
       /\ b.electricity_final_reading = last.billData.electricity_final_reading
       /\ b.motor_final_reading = last.billData.motor_final_reading
  /\ ChildrenOf(db.additional_expenses, last.bill_id) = IncomingExpenseRows
  /\ ChildrenOf(db.bill_payments, last.bill_id) = IncomingPaymentRows

\* C34: once a save S2 has returned success and while no later save is
\* issued, the store keeps S2's aggregate for the key: the request of a
\* timed-out attempt of an earlier save S1 never applies to the store after
\* S2 and changes it.
C34_AbandonedNeverOverwrites ==
  [][ ( /\ last.op = "save" /\ last.ok /\ rq = NoRun
        /\ last' = last /\ rq' = rq
        /\ StoreHoldsLastSave
        /\ \E q \in net \ net' : q.call < nsaves )
      => StoreHoldsLastSave' ]_vars

----------------------------------------------------------------------------
(* Overlapping preloads (SpecPreload) *)

\* C33: at any time at most one load of the preloader is in flight for a
\* key: two overlapping preloads that target the same uncached key do not
\* both read the store for it.
C33_OneLoadPerKey ==
  \A l1 \in pl.loads, l2 \in pl.loads : l1.key = l2.key => l1 = l2

----------------------------------------------------------------------------
(* SpecSession: the displays and saves of one session with the preloads the *)
(* displays trigger.  A load awaits its reads and writes the cache when it  *)
(* is resumed with their answers; calls of the facade run in between.       *)

\* The store the session starts on: the bills of December 2024 and January
\* 2025 with their children.
SessionStores == {d \in ReadStores : Cardinality(d.monthly_bills) = 2}

\* The reads that answer the session's fetches: the get_bill_with_details of
\* database-performance-optimization.sql, or the decomposed reads.
SessionPaths == {"dpo", "fallback"}

InitSession ==
  /\ db \in SessionStores
  /\ last = NoCall
  /\ nsaves = 0
  /\ rq = NoRun
  /\ cache = NoCache
  /\ now = 0
  /\ fc = Idle(NoPrev)
  /\ pl = NoLoads
  /\ net = {}

\* display with its preload: a hit returns the cached data and triggers the
\* preload; a miss goes to the Aggregate Fetcher.
SessionDisplayBegin(renterId, month, year) ==
  /\ FacadeIdle
  /\ pl.n < MaxPreloads
  /\ LET g == get(cache, now, renterId, month, year)
         call == [op |-> "display", key |-> <<renterId, month, year>>,
                  prev |-> PrevOutcome, user |-> NoUser, path |-> "", answers |-> FALSE]
         r == preload(g.cache, now, pl, renterId, month, year)
     IN IF g.data # {}
        THEN /\ fc' = call @@ [pc |-> "returned", ok |-> TRUE, fetched |-> FALSE,
                               data |-> g.data]
             /\ cache' = r.cache
             /\ pl' = r.pl
        ELSE /\ fc' = call @@ [pc |-> "fetching", ok |-> FALSE, fetched |-> FALSE,
                               data |-> {}]
             /\ cache' = g.cache
             /\ pl' = pl
  /\ UNCHANGED <<db, last, nsaves, rq, now, net>>

\* display, after the Aggregate Fetcher settled: store the fetched aggregate,
\* return it, then trigger the preload.
SessionDisplaySettle(path) ==
  /\ fc.op = "display"
  /\ fc.pc = "fetching"
  /\ LET f == getBillWithDetails(db, ReadUser, fc.key[1], fc.key[2], fc.key[3], path)
         settled == [fc EXCEPT !.pc = "returned", !.fetched = TRUE, !.user = ReadUser,
                               !.path = path, !.answers = TRUE]
         stored == set(cache, now, fc.key[1], fc.key[2], fc.key[3], ToMonthData(f.data))
         r == preload(stored, now, pl, fc.key[1], fc.key[2], fc.key[3])
     IN IF f.ok
        THEN /\ fc' = [settled EXCEPT !.ok = TRUE, !.data = {ToMonthData(f.data)}]
             /\ cache' = r.cache
             /\ pl' = r.pl
        ELSE /\ fc' = [settled EXCEPT !.ok = FALSE]
             /\ cache' = cache
             /\ pl' = pl
  /\ UNCHANGED <<db, last, nsaves, rq, now, net>>

\* Aggregates the session saves: the bill with no child, with a new expense,
\* or with an expense the store holds for it.
SessionAggregates(d, renterId, month, year) ==
  {A \in FacadeAggregates(d, renterId, month, year) :
     /\ A.electricityFinal = 600
     /\ A.payments = <<>>
     /\ Len(A.additionalExpenses) <= 1
     /\ \A i \in 1..Len(A.additionalExpenses) : A.additionalExpenses[i].description # NULL}

\* The existing-bill branch of a load: the answers of both child reads.
LoadReadChildren(l, failedExpenses, failedPayments) ==
  /\ l \in LoadsAt("children")
  /\ LET existingBill == CHOOSE b \in l.bill : TRUE
         expenses     == Caught(failedExpenses,
                                getAdditionalExpenses(db, ReadUser, existingBill.id))
         billPayments == Caught(failedPayments,
                                getBillPayments(db, ReadUser, existingBill.id))
     IN pl' = [pl EXCEPT !.loads = (@ \ {l}) \cup
                 {[l EXCEPT !.pc = "set",
                            !.failed = failedExpenses \/ failedPayments,
                            !.data = {LoadedMonthData(existingBill, expenses, billPayments)}]}]
  /\ UNCHANGED <<db, last, nsaves, rq, cache, now, fc, net>>

\* The no-bill branch of a load: the answer of the read of the previous bill.
LoadReadPrevious(l, failed) ==
  /\ l \in LoadsAt("previous")
  /\ LET previousBill == Caught(failed, getPreviousMonthBill(db, ReadUser, l.key[1],
                                                             l.key[2], l.key[3]))
     IN pl' = [pl EXCEPT !.loads = (@ \ {l}) \cup
                 {[l EXCEPT !.pc = "set",
                            !.failed = l.failed \/ failed,
                            !.data = {FreshMonthData(monthlyRent, previousBill)}]}]
  /\ UNCHANGED <<db, last, nsaves, rq, cache, now, fc, net>>

\* The load is resumed with the answers: this.set(renterId, month, year, billData).
LoadSet(l) ==
  /\ l \in LoadsAt("set")
  /\ cache' = set(cache, now, l.key[1], l.key[2], l.key[3], CHOOSE x \in l.data : TRUE)
  /\ pl' = [pl EXCEPT !.loads = @ \ {l},
                      !.done = [id |-> l.id, key |-> l.key, centre |-> l.centre,
                                failed |-> l.failed]]
  /\ UNCHANGED <<db, last, nsaves, rq, now, fc, net>>

NextSession ==
  \/ \E p \in Periods : SessionDisplayBegin(1, p[1], p[2])
  \/ \E path \in SessionPaths : SessionDisplaySettle(path)
  \/ /\ FacadeIdle
     /\ nsaves < MaxSaves
     /\ \E A \in SessionAggregates(db, 1, 1, 2025) : SaveBegin(1, 1, 2025, A)
  \/ SaveSettle(ReadUser)
  \/ FacadeReturn
  \/ \E l \in LoadsAt("bill"), failed \in BOOLEAN : LoadBill(l, failed)
  \/ \E l \in LoadsAt("children") : LoadReadChildren(l, FALSE, FALSE)
  \/ \E l \in LoadsAt("previous") : LoadReadPrevious(l, FALSE)
  \/ \E l \in LoadsAt("set") : LoadSet(l)

SpecSession == InitSession /\ [][NextSession]_vars

----------------------------------------------------------------------------
(* Displays, saves and preloads of one session (SpecSession) *)

\* The assigned identities among the children of a cached list.
HeldIds(children) ==
  {children[i].id : i \in {j \in 1..Len(children) : children[j].id # NoId}}

\* The rows of a table attached to the bills the store holds for a key.
RowsOfKey(rows, key) ==
  {r \in rows : \E b \in BillsAt(db, key[1], key[2], key[3]) : r.monthly_bill_id = b.id}

\* A save or a load of the preloader is in flight for the key.
InFlightFor(key) ==
  \/ fc.op = "save" /\ fc.pc = "saving" /\ fc.key = key
  \/ \E l \in pl.loads : l.key = key

\* C35: in every state where no save and no load of the preloader is in
\* flight for a key, every assigned child identity in the key's cache entry
\* is the id of a child row attached to the key's bill in the store.
C35_CachedIdsAreInStore ==
  \A key \in ProbeKeys :
    (Cached(key) /\ ~InFlightFor(key)) =>
      /\ \A id \in HeldIds(EntryOf(cache, key).data.additionalExpenses) :
           \E r \in RowsOfKey(db.additional_expenses, key) : r.id = id
      /\ \A id \in HeldIds(EntryOf(cache, key).data.payments) :
           \E r \in RowsOfKey(db.bill_payments, key) : r.id = id

\* The step in which a display returns: on a hit at once, on a miss when the
\* fetch has settled.
DisplayReturns == fc' # fc /\ fc'.op = "display" /\ fc'.pc = "returned"

\* The loads a step starts.
StartedLoads == pl'.loads \ pl.loads

\* C31: a display triggers the preload of the two adjacent months when it
\* returns, on a hit and on a miss alike, and returns without waiting for it:
\* the loads the preload starts are still before their first read when the
\* display has returned, the step writes no entry for an adjacent month, the
\* display returns the cached entry or the fetched aggregate, and no later
\* step of a load changes what the display returned.
C31_DisplayDoesNotWaitForPreload ==
  [][ /\ (DisplayReturns /\ fc'.ok) =>
           LET key == fc'.key
               tg == PreloadTargets(key[2], key[3])
           IN /\ pl'.n = pl.n + 1
              /\ pl.loads \subseteq pl'.loads
              /\ pl'.done = pl.done
              /\ \A l \in StartedLoads :
                   /\ l.pc = "bill"
                   /\ l.centre = <<key[2], key[3]>>
                   /\ l.key \in {<<key[1], tg[i][1], tg[i][2]>> : i \in 1..2}
              /\ \A i \in 1..2 :
                   LET k == getCacheKey(key[1], tg[i][1], tg[i][2])
                   IN IF k \in DOMAIN cache
                      THEN /\ k \in DOMAIN cache'
                           /\ cache'[k].data = cache[k].data
                           /\ cache'[k].timestamp = cache[k].timestamp
                      ELSE /\ k \notin DOMAIN cache'
                           /\ \E l \in StartedLoads : l.key = <<key[1], tg[i][1], tg[i][2]>>
              /\ fc'.data =
                   IF fc'.fetched
                   THEN {ToMonthData(getBillWithDetails(db, ReadUser, key[1], key[2], key[3],
                                                        fc'.path).data)}
                   ELSE {EntryOf(cache, key).data}
      /\ (pl'.loads # pl.loads /\ pl'.n = pl.n) => fc' = fc ]_vars

\* C31 witness: a display served from the cache has returned while a load its
\* own preload started is still before its first read.
C31_Witness ==
  /\ FacadeReturned("display")
  /\ ~fc.fetched
  /\ \E l \in pl.loads :
       /\ l.pc = "bill"
       /\ l.centre = <<fc.key[2], fc.key[3]>>
       /\ l.id > 2 * (pl.n - 1)

=============================================================================
